---- MODULE Spec2Model ----
(***************************************************************************)
(* A model of drTranscribe's real-time session orchestration layer:        *)
(* WebSocketHandler (src/src/websocket_handler.py) with its extraction     *)
(* scheduler, the session registry (services/session_manager.py), the      *)
(* session object (models/consultation.py) and the extraction merge        *)
(* (models/extraction.py).                                                 *)
(*                                                                         *)
(* One connection is modelled.  Python strings and byte buffers are        *)
(* sequences of one-character strings / of byte values, so that strip(),   *)
(* len(), "in" and split() are computed, not assumed.                      *)
(*                                                                         *)
(* Time.  The code reads time.monotonic() only as "now - last start"       *)
(* compared with the throttle, and as the delay of a call_later timer.     *)
(* The model therefore keeps, per session, the time elapsed since the last *)
(* start (saturated at the throttle) and the remaining delay of the timer; *)
(* Tick lets one time unit pass.  The monotonic clock is taken to be at    *)
(* least one throttle interval past its reference point, so a session with *)
(* no recorded start reads as "interval elapsed" (line 411).               *)
(***************************************************************************)
EXTENDS Integers, Sequences, FiniteSets, TLC

(***************************************************************************)
(* Bounds of the model and program constants.                              *)
(***************************************************************************)
MaxFieldLen == 3   \* length of the field values the merge is given
MaxMergedLen == 5  \* length of the merged field values that are kept
MaxChunks == 3     \* audio chunks received for a live session
MaxOther == 1      \* error replies to messages that are rejected on receipt

_EXTRACTION_THROTTLE_SECS == 5
HeaderSize == 44
RmsThreshold == 200
min_transcript_length == 11

SessionIds == {"s1"}      \* the uuid4 values the model can draw
WS == "ws"                      \* the connection's websocket object

\* Optional values: Python's None (also an absent dict entry) and a present x.
None == <<>>
Some(x) == <<x>>
Get(o) == o[1]

(***************************************************************************)
(* Python str helpers on sequences of characters.                          *)
(***************************************************************************)
IsSpace(c) == c \in {" ", "\n", "\t"}

RECURSIVE lstrip(_)
lstrip(s) == IF s # <<>> /\ IsSpace(Head(s)) THEN lstrip(Tail(s)) ELSE s

RECURSIVE rstrip(_)
rstrip(s) ==
    IF s # <<>> /\ IsSpace(s[Len(s)]) THEN rstrip(SubSeq(s, 1, Len(s) - 1)) ELSE s

strip(s) == rstrip(lstrip(s))

\* Python's "a in b" on strings
IsSubstring(a, b) ==
    \E i \in 0..(Len(b) - Len(a)) : SubSeq(b, i + 1, i + Len(a)) = a

IsPrefix(a, b) == Len(a) <= Len(b) /\ SubSeq(b, 1, Len(a)) = a

\* s.split('\n')
RECURSIVE SplitLines(_, _)
SplitLines(s, cur) ==
    IF s = <<>> THEN <<cur>>
    ELSE IF Head(s) = "\n" THEN <<cur>> \o SplitLines(Tail(s), <<>>)
    ELSE SplitLines(Tail(s), Append(cur, Head(s)))

\* '\n'.join(lines)
RECURSIVE JoinLines(_)
JoinLines(lines) ==
    IF lines = <<>> THEN <<>>
    ELSE IF Len(lines) = 1 THEN lines[1]
    ELSE lines[1] \o <<"\n">> \o JoinLines(Tail(lines))

(***************************************************************************)
(* ExtractionResult and its merge (models/extraction.py).                  *)
(***************************************************************************)
Fields == {"chief_complaint", "diagnosis", "medicine", "advice", "next_steps"}

EmptyExtraction == [f \in Fields |-> <<>>]

StrippedLines(s) ==
    LET raw == SplitLines(s, <<>>)
        st == [i \in 1..Len(raw) |-> strip(raw[i])]
    IN SelectSeq(st, LAMBDA l : l # <<>>)

\* a merge that overwrites the field
merge_overwriting(existing, new) == new

\* a merge that appends without looking for duplicates
merge_appending(existing, new) == existing \o <<"\n">> \o new

\* a merge that appends every line of the new value
merge_appending_all_lines(existing, new) ==
    IF existing = <<>> THEN new
    ELSE IF new = <<>> THEN existing
    ELSE IF existing = new THEN existing
    ELSE IF IsSubstring(new, existing) THEN existing
    ELSE IF IsSubstring(existing, new) THEN new
    ELSE LET new_lines == StrippedLines(new)
         IN IF new_lines = <<>> THEN existing
            ELSE existing \o <<"\n">> \o JoinLines(new_lines)

\* a merge that goes to the line comparison without the substring checks
merge_without_substring_check(existing, new) ==
    IF existing = <<>> THEN new
    ELSE IF new = <<>> THEN existing
    ELSE IF existing = new THEN existing
    ELSE
        LET existing_lines == StrippedLines(existing)
            new_lines == StrippedLines(new)
            is_duplicate(nl) ==
                \E i \in 1..Len(existing_lines) :
                    \/ IsSubstring(nl, existing_lines[i])
                    \/ IsSubstring(existing_lines[i], nl)
            unique_new_lines == SelectSeq(new_lines, LAMBDA nl : ~is_duplicate(nl))
        IN IF unique_new_lines = <<>> THEN existing
           ELSE existing \o <<"\n">> \o JoinLines(unique_new_lines)

_merge_field(existing, new) ==
    IF existing = <<>> THEN new
    ELSE IF new = <<>> THEN existing
    ELSE IF existing = new THEN existing
    ELSE IF IsSubstring(new, existing) THEN existing
    ELSE IF IsSubstring(existing, new) THEN new
    ELSE
        LET existing_lines == StrippedLines(existing)
            new_lines == StrippedLines(new)
            is_duplicate(nl) ==
                \E i \in 1..Len(existing_lines) :
                    \/ IsSubstring(nl, existing_lines[i])
                    \/ IsSubstring(existing_lines[i], nl)
            unique_new_lines == SelectSeq(new_lines, LAMBDA nl : ~is_duplicate(nl))
        IN IF unique_new_lines = <<>> THEN existing
           ELSE existing \o <<"\n">> \o JoinLines(unique_new_lines)

merge(self, other) == [f \in Fields |-> _merge_field(self[f], other[f])]

\* The snapshots the extraction backend answers with in the model.
Responses ==
    { [EmptyExtraction EXCEPT !["chief_complaint"] = <<"a">>] }

(***************************************************************************)
(* The silence filter (websocket_handler.py, _is_silent_wav).              *)
(* audio_bytes is a sequence of byte values; samples are little-endian     *)
(* signed 16-bit.                                                          *)
(***************************************************************************)
Int16(lo, hi) ==
    LET u == lo + 256 * hi IN IF u >= 32768 THEN u - 65536 ELSE u

RECURSIVE SumSq(_, _)
SumSq(pcm, n) ==
    IF n = 0 THEN 0
    ELSE LET s == Int16(pcm[2 * n - 1], pcm[2 * n]) IN s * s + SumSq(pcm, n - 1)

\* a filter that lets every chunk through
nothing_is_silent(audio_bytes) == FALSE

\* a filter that also drops a chunk whose energy is at the threshold
silent_at_the_threshold(audio_bytes) ==
    IF Len(audio_bytes) <= HeaderSize THEN TRUE
    ELSE
        LET pcm_data == SubSeq(audio_bytes, HeaderSize + 1, Len(audio_bytes))
            num_samples == Len(pcm_data) \div 2
        IN IF num_samples = 0 THEN TRUE
           ELSE SumSq(pcm_data, num_samples)
                    <= RmsThreshold * RmsThreshold * num_samples

_is_silent_wav(audio_bytes) ==
    IF Len(audio_bytes) <= HeaderSize THEN TRUE
    ELSE
        LET pcm_data == SubSeq(audio_bytes, HeaderSize + 1, Len(audio_bytes))
            num_samples == Len(pcm_data) \div 2
        IN IF num_samples = 0 THEN TRUE
           \* rms < threshold, with rms = sqrt(sum_sq / num_samples)
           ELSE SumSq(pcm_data, num_samples)
                    < RmsThreshold * RmsThreshold * num_samples

WavHeader == [i \in 1..HeaderSize |-> 0]

\* The audio buffers a client sends in the model: header only, two zero
\* samples, two samples of amplitude 1000 (0x03E8).
HeaderOnlyWav == WavHeader
SilentWav == WavHeader \o <<0, 0, 0, 0>>
SpeechWav == WavHeader \o <<232, 3, 232, 3>>
AudioInputs == {SilentWav, SpeechWav}
Sources == {"mic", "tab", ""}      \* "" : the message names no source

\* What the transcription backend answers in the model: nothing, blanks,
\* and a text without and with surrounding blanks.  "Doctor: hi" is one
\* character short of min_transcript_length, "Patient: hi" is not.
TranscribeOutputs ==
    { <<>>, <<" ">>, <<"h", "i">>, <<" ", "h", "i", " ">> }

(***************************************************************************)
(* ConsultationSession (models/consultation.py).                           *)
(***************************************************************************)
ConsultationSession ==
    [ transcript_chunks |-> <<>>,
      extraction |-> EmptyExtraction,
      mic_chunk_paths |-> <<>>,
      tab_chunk_paths |-> <<>>,
      mic_chunk_count |-> 0,
      tab_chunk_count |-> 0,
      audio_saved_path |-> None ]

\* fragments kept newest first
add_transcript_chunk_in_front(self, chunk) ==
    IF strip(chunk.text) # <<>>
    THEN [self EXCEPT !.transcript_chunks = <<chunk>> \o @]
    ELSE self

add_transcript_chunk(self, chunk) ==
    IF strip(chunk.text) # <<>>
    THEN [self EXCEPT !.transcript_chunks = Append(@, chunk)]
    ELSE self

\* the snapshot kept as it was
update_extraction_dropping_response(self, new_extraction) == self

\* the snapshot replaced by the latest response
update_extraction_replacing_snapshot(self, new_extraction) ==
    [self EXCEPT !.extraction = new_extraction]

update_extraction(self, new_extraction) ==
    [self EXCEPT !.extraction = merge(@, new_extraction)]

Speaker(source) == IF source = "mic" THEN "Doctor" ELSE "Patient"

SpeakerPrefix(speaker) ==
    IF speaker = "Doctor"
    THEN <<"D", "o", "c", "t", "o", "r", ":", " ">>
    ELSE <<"P", "a", "t", "i", "e", "n", "t", ":", " ">>

\* a transcript that renders the latest fragment only
full_transcript_of_latest_fragment(self) ==
    IF self.transcript_chunks = <<>> THEN <<>>
    ELSE LET chunk == self.transcript_chunks[Len(self.transcript_chunks)]
         IN SpeakerPrefix(chunk.speaker) \o chunk.text

get_full_transcript(self) ==
    JoinLines([i \in 1..Len(self.transcript_chunks) |->
                  SpeakerPrefix(self.transcript_chunks[i].speaker)
                      \o self.transcript_chunks[i].text])

\* a session that records every path on the mic track
add_audio_chunk_path_to_mic(self, chunk_path, source) ==
    [self EXCEPT !.mic_chunk_paths = Append(@, chunk_path)]

add_audio_chunk_path(self, chunk_path, source) ==
    IF source = "tab"
    THEN [self EXCEPT !.tab_chunk_paths = Append(@, chunk_path)]
    ELSE [self EXCEPT !.mic_chunk_paths = Append(@, chunk_path)]

always_has_audio_chunks(self) == TRUE
has_audio_chunks(self) ==
    self.mic_chunk_paths # <<>> \/ self.tab_chunk_paths # <<>>

(***************************************************************************)
(* State.                                                                  *)
(***************************************************************************)
VARIABLES
    sessions,                \* SessionManager.sessions: the registered ids
    session_obj,             \* the ConsultationSession objects created, by id
    _extraction_running,     \* session id -> Some(TRUE | FALSE) | None
    _extraction_pending,     \* session id -> Some([transcript, websocket])
    _last_extraction_time,   \* session id -> Some(time elapsed since the
                             \*   recorded start, saturated at the throttle)
    _extraction_timer,       \* session id -> Some(remaining delay of the
                             \*   call_later handle)
    tasks,                   \* the asyncio tasks created and not yet finished
    hpc,                     \* where handle_connection is suspended
    hlocals,                 \* its locals while a chunk is processed
    current_session_id,
    storage_enabled,         \* settings.audio_storage.enabled
    conn_open,               \* the websocket still carries messages
    outbox,                  \* the number of messages sent on the websocket,
                             \*   by message type, and the snapshot carried by
                             \*   the latest extraction_update
    n_chunks,                \* audio chunks received for a live session
    called_bg,               \* history: the transcripts the scheduler's tasks
                             \*   have passed to the extraction backend
    final_calls,             \* history: the final extraction passes
    burst,                   \* history: the number of schedule calls made
                             \*   at one instant, from an immediate start on
    consolidations           \* history: _save_session_audio runs per session

vars ==
    << sessions, session_obj, _extraction_running, _extraction_pending,
       _last_extraction_time, _extraction_timer, tasks, hpc, hlocals,
       current_session_id, storage_enabled, conn_open, outbox, n_chunks,
       called_bg, final_calls, burst, consolidations >>

schedVars ==
    << _extraction_running, _extraction_pending, _last_extraction_time,
       _extraction_timer, tasks >>

NoLocals == [audio_bytes |-> <<>>, source |-> ""]

NoBurst == 0
MessageTypes == {"error", "extraction_update", "session_stopped"}

\* nothing has been sent
NoMessages ==
    [k \in MessageTypes \cup {"last_update"} |->
        IF k \in MessageTypes THEN 0 ELSE None]

Init ==
    /\ sessions = {}
    /\ session_obj = [sid \in SessionIds |-> None]
    /\ _extraction_running = [sid \in SessionIds |-> None]
    /\ _extraction_pending = [sid \in SessionIds |-> None]
    /\ _last_extraction_time = [sid \in SessionIds |-> None]
    /\ _extraction_timer = [sid \in SessionIds |-> None]
    /\ tasks = {}
    /\ hpc = "receive"
    /\ hlocals = NoLocals
    /\ current_session_id = None
    /\ storage_enabled \in BOOLEAN
    /\ conn_open = TRUE
    /\ outbox = NoMessages
    /\ n_chunks = 0
    /\ called_bg = [sid \in SessionIds |-> {}]
    /\ final_calls = [sid \in SessionIds |-> <<>>]
    /\ burst = [sid \in SessionIds |-> NoBurst]
    /\ consolidations = [sid \in SessionIds |-> 0]

(***************************************************************************)
(* The extraction scheduler (websocket_handler.py, lines 395-454).  Its    *)
(* synchronous functions are operators from a scheduler state S (the four  *)
(* dictionaries and the task set) to the next one.                         *)
(***************************************************************************)
Sched ==
    [ running |-> _extraction_running,
      pending |-> _extraction_pending,
      last |-> _last_extraction_time,
      timer |-> _extraction_timer,
      tasks |-> tasks ]

SetSched(S) ==
    /\ _extraction_running' = S.running
    /\ _extraction_pending' = S.pending
    /\ _last_extraction_time' = S.last
    /\ _extraction_timer' = S.timer
    /\ tasks' = S.tasks

\* A session's termination has begun: the handler is in its disconnect or
\* error path for it, or it has been removed from the registry.
Terminating(sid) ==
    /\ session_obj[sid] # None
    /\ \/ sid \notin sessions
       \/ hpc = "final_extract" /\ current_session_id = Some(sid)

\* now - self._last_extraction_time.get(sid, 0), saturated at the throttle
Elapsed(S, sid) ==
    IF S.last[sid] = None THEN _EXTRACTION_THROTTLE_SECS ELSE Get(S.last[sid])

\* asyncio.create_task(self._run_extraction_bg(session, transcript, ws))
RunExtractionBgTask(sid, full_transcript, websocket) ==
    [ kind |-> "run_extraction_bg", sid |-> sid, transcript |-> full_transcript,
      websocket |-> websocket, pc |-> "ready" ]

\* a start that leaves the trigger armed
start_keeping_trigger(S, sid, full_transcript, websocket) ==
    [S EXCEPT
        !.running[sid] = Some(TRUE),
        !.last[sid] = Some(0),
        !.tasks = @ \cup {RunExtractionBgTask(sid, full_transcript, websocket)}]

_start_extraction_bg(S, sid, full_transcript, websocket) ==
    [S EXCEPT
        !.running[sid] = Some(TRUE),
        !.last[sid] = Some(0),
        !.timer[sid] = None,
        !.tasks = @ \cup {RunExtractionBgTask(sid, full_transcript, websocket)}]

\* a scheduler that does not look at the running flag
schedule_ignoring_running(S, sid, full_transcript, websocket) ==
    IF Elapsed(S, sid) >= _EXTRACTION_THROTTLE_SECS
    THEN _start_extraction_bg(S, sid, full_transcript, websocket)
    ELSE [S EXCEPT
            !.pending[sid] =
                Some([transcript |-> full_transcript, websocket |-> websocket]),
            !.timer[sid] =
                IF @ = None
                THEN Some(_EXTRACTION_THROTTLE_SECS - Elapsed(S, sid))
                ELSE @]

\* a scheduler without a throttle
schedule_starting_at_once(S, sid, full_transcript, websocket) ==
    IF S.running[sid] = Some(TRUE)
    THEN [S EXCEPT !.pending[sid] =
              Some([transcript |-> full_transcript, websocket |-> websocket])]
    ELSE _start_extraction_bg(S, sid, full_transcript, websocket)

\* a scheduler that arms a trigger also while a task is running
schedule_arming_trigger_while_running(S, sid, full_transcript, websocket) ==
    IF S.running[sid] # Some(TRUE) /\ Elapsed(S, sid) >= _EXTRACTION_THROTTLE_SECS
    THEN _start_extraction_bg(S, sid, full_transcript, websocket)
    ELSE [S EXCEPT
            !.pending[sid] =
                Some([transcript |-> full_transcript, websocket |-> websocket]),
            !.timer[sid] =
                IF @ = None
                THEN Some(_EXTRACTION_THROTTLE_SECS - Elapsed(S, sid))
                ELSE @]

_schedule_extraction(S, sid, full_transcript, websocket) ==
    IF S.running[sid] = Some(TRUE)
    THEN [S EXCEPT !.pending[sid] =
              Some([transcript |-> full_transcript, websocket |-> websocket])]
    ELSE IF Elapsed(S, sid) >= _EXTRACTION_THROTTLE_SECS
    THEN _start_extraction_bg(S, sid, full_transcript, websocket)
    ELSE [S EXCEPT
            !.pending[sid] =
                Some([transcript |-> full_transcript, websocket |-> websocket]),
            !.timer[sid] =
                IF @ = None
                THEN Some(_EXTRACTION_THROTTLE_SECS - Elapsed(S, sid))
                ELSE @]

\* a callback that forgets the trigger and starts nothing
fire_without_start(S, sid) == [S EXCEPT !.timer[sid] = None]

_fire_pending_extraction(S, sid) ==
    LET S1 == [S EXCEPT !.timer[sid] = None]
    IN IF S1.pending[sid] # None /\ S1.running[sid] # Some(TRUE)
       THEN _start_extraction_bg(
                [S1 EXCEPT !.pending[sid] = None], sid,
                Get(S1.pending[sid]).transcript, Get(S1.pending[sid]).websocket)
       ELSE S1

\* a finally block that does not drain the queued request
finally_without_drain(S, sid) == [S EXCEPT !.running[sid] = Some(FALSE)]

\* a finally block that leaves the running flag as it is
finally_keeping_flag(S, sid) == S

\* the finally block of _run_extraction_bg
RunExtractionBgFinally(S, sid) ==
    LET S1 == [S EXCEPT !.running[sid] = Some(FALSE)]
    IN IF S1.pending[sid] # None
       THEN _start_extraction_bg(
                [S1 EXCEPT !.pending[sid] = None], sid,
                Get(S1.pending[sid]).transcript, Get(S1.pending[sid]).websocket)
       ELSE S1

\* "Clean up background extraction tracking" (lines 99-105, 143-149, 182-188)
CleanUpTracking(S, sid) ==
    [S EXCEPT
        !.running[sid] = None,
        !.pending[sid] = None,
        !.last[sid] = None,
        !.timer[sid] = None]

(***************************************************************************)
(* Messages to the client.  A send on a closed websocket raises and        *)
(* delivers nothing; every caller catches that.                            *)
(***************************************************************************)
Send(box, msg) ==
    IF conn_open
    THEN [box EXCEPT
            ![msg.type] = @ + 1,
            !["last_update"] =
                IF msg.type = "extraction_update" THEN Some(msg.extraction) ELSE @]
    ELSE box

ErrorMessage(message) == [type |-> "error", message |-> message]
ExtractionUpdateMessage(extraction) ==
    [type |-> "extraction_update", extraction |-> extraction]
stop_not_acknowledged == [type |-> "error"]
SessionStopped == [type |-> "session_stopped"]

(***************************************************************************)
(* SessionManager (services/session_manager.py).                           *)
(***************************************************************************)
get_session(session_id) ==
    IF session_id \in sessions THEN session_obj[session_id] ELSE None

\* an end_session that leaves the entry in place
end_session_keeping_entry(registry, session_id) == registry

end_session(registry, session_id) == registry \ {session_id}

(***************************************************************************)
(* History bookkeeping.                                                    *)
(***************************************************************************)
FinalCall(sid, transcript) ==
    [ transcript |-> transcript, registered |-> sid \in sessions ]

\* The number of schedule calls made, with no time passing in between, from
\* one that found the session idle and started a task at once.
BurstAfterSchedule(b, S, sid) ==
    IF S.running[sid] # Some(TRUE) /\ Elapsed(S, sid) >= _EXTRACTION_THROTTLE_SECS
    THEN 1
    ELSE IF b > 0 THEN b + 1
    ELSE b

(***************************************************************************)
(* handle_connection: the termination paths.                               *)
(***************************************************************************)
\* lines 137-151 / 176-190: consolidation, cleanup, removal, return
FinishTermination(sid) ==
    LET S == CleanUpTracking(Sched, sid)
        save == has_audio_chunks(Get(session_obj[sid]))
        task == [ kind |-> "save_session_audio", sid |-> sid, transcript |-> <<>>,
                  websocket |-> None, pc |-> "ready" ]
    IN /\ SetSched(IF save THEN [S EXCEPT !.tasks = @ \cup {task}] ELSE S)
       /\ consolidations' =
              IF save THEN [consolidations EXCEPT ![sid] = @ + 1]
              ELSE consolidations
       /\ sessions' = end_session(sessions, sid)
       /\ hpc' = "returned"

\* lines 118-135 / 153-174: the except clauses of handle_connection
EnterTermination ==
    IF current_session_id = None
    THEN /\ hpc' = "returned"
         /\ UNCHANGED << sessions, consolidations, final_calls, schedVars >>
    ELSE LET sid == Get(current_session_id)
             full_transcript == get_full_transcript(Get(get_session(sid)))
         IN IF strip(full_transcript) # <<>>
            THEN /\ hpc' = "final_extract"
                 /\ final_calls' =
                        [final_calls EXCEPT
                            ![sid] = Append(@, FinalCall(sid, full_transcript))]
                 /\ UNCHANGED << sessions, consolidations, schedVars >>
            ELSE /\ FinishTermination(sid)
                 /\ UNCHANGED final_calls

RecvDisconnect ==
    /\ hpc = "receive"
    /\ ~conn_open
    /\ EnterTermination
    /\ UNCHANGED << session_obj, hlocals, current_session_id, storage_enabled,
                    conn_open, outbox, n_chunks, called_bg, burst >>

\* json.loads fails, or the message is no JSON object (lines 62-63, 153-158)
RecvMalformed ==
    /\ hpc = "receive"
    /\ conn_open
    /\ outbox' = Send(outbox, ErrorMessage("Internal error"))
    /\ EnterTermination
    /\ UNCHANGED << session_obj, hlocals, current_session_id, storage_enabled,
                    conn_open, n_chunks, called_bg, burst >>

\* StartSessionMessage(**message) raises: _handle_start_session reports and
\* re-raises (lines 217-220), handle_connection reports again (153-158)
RecvStartSessionInvalid ==
    /\ hpc = "receive"
    /\ conn_open
    /\ outbox' = Send(Send(outbox, ErrorMessage("Failed to start session")),
                      ErrorMessage("Internal error"))
    /\ EnterTermination
    /\ UNCHANGED << session_obj, hlocals, current_session_id, storage_enabled,
                    conn_open, n_chunks, called_bg, burst >>

\* a failure of the final extraction leaves the handler at once
final_extract_failure_raised(ok, response) ==
    /\ hpc = "final_extract"
    /\ IF ok
       THEN LET sid == Get(current_session_id)
            IN /\ session_obj' =
                      [session_obj EXCEPT
                          ![sid] = Some(update_extraction(Get(@), response))]
               /\ FinishTermination(sid)
       ELSE /\ hpc' = "returned"
            /\ UNCHANGED << sessions, session_obj, consolidations, schedVars >>
    /\ UNCHANGED << hlocals, current_session_id, storage_enabled, conn_open,
                    outbox, n_chunks, called_bg, final_calls,
                    burst >>

\* the final _handle_extraction of the except clauses returns or raises
FinalExtractDone(ok, response) ==
    /\ hpc = "final_extract"
    /\ LET sid == Get(current_session_id)
       IN /\ session_obj' =
                 IF ok
                 THEN [session_obj EXCEPT
                          ![sid] = Some(update_extraction(Get(@), response))]
                 ELSE session_obj
          /\ FinishTermination(sid)
    /\ UNCHANGED << hlocals, current_session_id, storage_enabled, conn_open,
                    outbox, n_chunks, called_bg, final_calls,
                    burst >>

\* a stop_session taken whatever the handler is doing
stop_session_taken_anywhere ==
    /\ conn_open
    /\ hpc' = "returned"
    /\ outbox' = Send(outbox, [type |-> "session_stopped"])
    /\ UNCHANGED << sessions, session_obj, hlocals, current_session_id,
                    storage_enabled, conn_open, n_chunks, called_bg,
                    final_calls, burst, consolidations, schedVars >>

\* stop_session (lines 84-110)
RecvStopSession ==
    /\ hpc = "receive"
    /\ conn_open
    /\ outbox' = Send(outbox, SessionStopped)
    /\ IF current_session_id = None
       THEN UNCHANGED << sessions, schedVars >>
       ELSE LET sid == Get(current_session_id)
                task == [ kind |-> "finalize_session", sid |-> sid,
                          transcript |-> <<>>, websocket |-> None,
                          pc |-> "ready" ]
                S == IF get_session(sid) # None
                     THEN [Sched EXCEPT !.tasks = @ \cup {task}]
                     ELSE Sched
            IN /\ SetSched(CleanUpTracking(S, sid))
               /\ sessions' = end_session(sessions, sid)
    /\ current_session_id' = None
    /\ hpc' = "returned"
    /\ UNCHANGED << session_obj, hlocals, storage_enabled, conn_open, n_chunks,
                    called_bg, final_calls, burst, consolidations >>

(***************************************************************************)
(* handle_connection: start_session, unknown types, audio chunks.          *)
(***************************************************************************)
\* uuid.uuid4(): an id no session of this process has
\* the values uuid4 may return on this connection
DrawableIds == DOMAIN session_obj

FreshId == CHOOSE sid \in DrawableIds : session_obj[sid] = None

\* lines 67-70 and _handle_start_session (192-215); the ids of SessionIds
\* are all the sessions the model starts
RecvStartSession ==
    /\ hpc = "receive"
    /\ conn_open
    /\ \E sid \in DrawableIds : session_obj[sid] = None
    /\ session_obj' = [session_obj EXCEPT ![FreshId] = Some(ConsultationSession)]
    /\ sessions' = sessions \cup {FreshId}
    /\ current_session_id' = Some(FreshId)
    /\ UNCHANGED << hpc, hlocals, storage_enabled, conn_open, outbox, n_chunks,
                    called_bg, final_calls, burst, consolidations,
                    schedVars >>

\* lines 112-116
RecvUnknownType ==
    /\ hpc = "receive"
    /\ conn_open
    /\ outbox["error"] < MaxOther
    /\ outbox' = Send(outbox, ErrorMessage("Unknown message type"))
    /\ UNCHANGED << sessions, session_obj, hpc, hlocals, current_session_id,
                    storage_enabled, conn_open, n_chunks, called_bg,
                    final_calls, burst, consolidations, schedVars >>

\* The chunk gets past the checks of lines 73-78 and 331-341.
ReachesSilenceCheck(valid) ==
    /\ current_session_id # None
    /\ valid
    /\ get_session(Get(current_session_id)) # None

\* a handler that starts a session for a chunk that has none
audio_chunk_starts_session(valid, audio_bytes, msg_source) ==
    /\ hpc = "receive"
    /\ conn_open
    /\ current_session_id = None
    /\ \E sid \in DrawableIds : session_obj[sid] = None
    /\ session_obj' = [session_obj EXCEPT ![FreshId] = Some(ConsultationSession)]
    /\ sessions' = sessions \cup {FreshId}
    /\ current_session_id' = Some(FreshId)
    /\ UNCHANGED << hpc, hlocals, storage_enabled, conn_open, outbox, n_chunks,
                    called_bg, final_calls, burst, consolidations,
                    schedVars >>

\* lines 72-82 and _handle_audio_chunk up to its first suspension (330-355).
\* valid: AudioChunkMessage(**message) and the base64 decoding succeed.
RecvAudioChunk(valid, audio_bytes, msg_source) ==
    /\ hpc = "receive"
    /\ conn_open
    /\ IF ReachesSilenceCheck(valid)
       THEN n_chunks < MaxChunks /\ n_chunks' = n_chunks + 1
       ELSE outbox["error"] < MaxOther /\ UNCHANGED n_chunks
    /\ IF current_session_id = None
       THEN /\ outbox' = Send(outbox, ErrorMessage("No active session"))
            /\ UNCHANGED << hpc, hlocals >>
       ELSE IF ~valid
       THEN /\ outbox' = Send(outbox, ErrorMessage("Failed to process audio"))
            /\ UNCHANGED << hpc, hlocals >>
       ELSE IF get_session(Get(current_session_id)) = None
       THEN /\ outbox' = Send(outbox, ErrorMessage("Session not found"))
            /\ UNCHANGED << hpc, hlocals >>
       ELSE IF _is_silent_wav(audio_bytes)
       THEN UNCHANGED << outbox, hpc, hlocals >>
       ELSE LET source == IF msg_source = "" THEN "mic" ELSE msg_source
            IN /\ hlocals' = [ audio_bytes |-> audio_bytes, source |-> source ]
               /\ hpc' = IF storage_enabled THEN "save_chunk" ELSE "transcribe"
               /\ UNCHANGED outbox
    /\ UNCHANGED << sessions, session_obj, current_session_id, storage_enabled,
                    conn_open, called_bg, final_calls, burst,
                    consolidations, schedVars >>

\* f"{source}_chunk_{chunk_index:04d}.wav" in the session's temp directory
ChunkPath(sid, source, chunk_index) ==
    [sid |-> sid, source |-> source, chunk_index |-> chunk_index]

\* audio_storage.save_chunk returns a path or raises (lines 347-361)
SaveChunkDone(ok) ==
    /\ hpc = "save_chunk"
    /\ LET sid == Get(current_session_id)
           s == Get(session_obj[sid])
           source == hlocals.source
           chunk_index ==
               IF source = "mic" THEN s.mic_chunk_count ELSE s.tab_chunk_count
           s1 == add_audio_chunk_path(s, ChunkPath(sid, source, chunk_index),
                                      source)
           s2 == IF source = "tab"
                 THEN [s1 EXCEPT !.tab_chunk_count = @ + 1]
                 ELSE [s1 EXCEPT !.mic_chunk_count = @ + 1]
       IN IF ok
          THEN /\ session_obj' = [session_obj EXCEPT ![sid] = Some(s2)]
               /\ hpc' = "transcribe"
               /\ UNCHANGED << outbox, hlocals >>
          ELSE /\ outbox' = Send(outbox, ErrorMessage("Failed to process audio"))
               /\ hpc' = "receive"
               /\ hlocals' = NoLocals
               /\ UNCHANGED session_obj
    /\ UNCHANGED << sessions, current_session_id, storage_enabled, conn_open,
                    n_chunks, called_bg, final_calls, burst,
                    consolidations, schedVars >>

\* a handler for which a failed transcription is fatal
transcribe_failure_fatal(ok, transcript) ==
    /\ hpc = "transcribe"
    /\ ~ok
    /\ outbox' = Send(outbox, ErrorMessage("Internal error"))
    /\ hlocals' = NoLocals
    /\ EnterTermination
    /\ UNCHANGED << session_obj, current_session_id, storage_enabled,
                    conn_open, n_chunks, called_bg, burst >>

\* transcription_service.transcribe returns or raises (lines 363-393)
TranscribeDone(ok, transcript) ==
    /\ hpc = "transcribe"
    /\ hpc' = "receive"
    /\ hlocals' = NoLocals
    /\ LET sid == Get(current_session_id)
           source == hlocals.source
           chunk == [ text |-> strip(transcript), source |-> source,
                      speaker |-> Speaker(source) ]
           s1 == add_transcript_chunk(Get(session_obj[sid]), chunk)
           full_transcript == get_full_transcript(s1)
       IN IF ~ok
          THEN /\ outbox' = Send(outbox, ErrorMessage("Failed to process audio"))
               /\ UNCHANGED << session_obj, burst, schedVars >>
          ELSE IF strip(transcript) = <<>>
          THEN UNCHANGED << outbox, session_obj, burst, schedVars >>
          ELSE /\ session_obj' = [session_obj EXCEPT ![sid] = Some(s1)]
               /\ SetSched(_schedule_extraction(Sched, sid, full_transcript,
                                                Some(WS)))
               /\ burst' = [burst EXCEPT ![sid] =
                               BurstAfterSchedule(@, Sched, sid)]
               /\ UNCHANGED outbox
    /\ UNCHANGED << sessions, current_session_id, storage_enabled, conn_open,
                    n_chunks, called_bg, final_calls, consolidations >>

(***************************************************************************)
(* The background tasks.                                                   *)
(***************************************************************************)
ReplaceTask(S, t, pc) == [S EXCEPT !.tasks = (@ \ {t}) \cup {[t EXCEPT !.pc = pc]}]
RemoveTask(S, t) == [S EXCEPT !.tasks = @ \ {t}]

\* _run_extraction_bg runs to the backend call of _handle_extraction
\* (lines 442-446, 275-290), or past it when the transcript is too short
RunExtractionBgStart(t) ==
    /\ t \in tasks
    /\ t.kind = "run_extraction_bg"
    /\ t.pc = "ready"
    /\ IF Len(strip(t.transcript)) < min_transcript_length
       THEN /\ SetSched(RunExtractionBgFinally(RemoveTask(Sched, t), t.sid))
            /\ UNCHANGED called_bg
       ELSE /\ SetSched(ReplaceTask(Sched, t, "extract"))
            /\ called_bg' = [called_bg EXCEPT ![t.sid] = @ \cup {t.transcript}]
    /\ UNCHANGED << sessions, session_obj, hpc, hlocals, current_session_id,
                    storage_enabled, conn_open, outbox, n_chunks,
                    final_calls, burst, consolidations >>

\* a task that reports the backend's answer as it came
run_extraction_bg_sending_response(t, ok, response) ==
    /\ t \in tasks
    /\ t.kind = "run_extraction_bg"
    /\ t.pc = "extract"
    /\ LET merged == update_extraction(Get(session_obj[t.sid]), response)
       IN IF ok
          THEN /\ session_obj' = [session_obj EXCEPT ![t.sid] = Some(merged)]
               /\ outbox' =
                      IF t.websocket # None
                      THEN Send(outbox, ExtractionUpdateMessage(response))
                      ELSE outbox
          ELSE UNCHANGED << session_obj, outbox >>
    /\ SetSched(RunExtractionBgFinally(RemoveTask(Sched, t), t.sid))
    /\ UNCHANGED << sessions, hpc, hlocals, current_session_id,
                    storage_enabled, conn_open, n_chunks,
                    called_bg, final_calls, burst, consolidations >>

\* the backend call of a scheduler-started task returns or raises
\* (lines 286-321, 447-454)
RunExtractionBgDone(t, ok, response) ==
    /\ t \in tasks
    /\ t.kind = "run_extraction_bg"
    /\ t.pc = "extract"
    /\ LET merged == update_extraction(Get(session_obj[t.sid]), response)
       IN IF ok
          THEN /\ session_obj' = [session_obj EXCEPT ![t.sid] = Some(merged)]
               /\ outbox' =
                      IF t.websocket # None
                      THEN Send(outbox, ExtractionUpdateMessage(merged.extraction))
                      ELSE outbox
          ELSE UNCHANGED << session_obj, outbox >>
    /\ SetSched(RunExtractionBgFinally(RemoveTask(Sched, t), t.sid))
    /\ UNCHANGED << sessions, hpc, hlocals, current_session_id,
                    storage_enabled, conn_open, n_chunks,
                    called_bg, final_calls, burst, consolidations >>

\* _finalize_session runs to its first suspension (lines 464-481)
FinalizeSessionStart(t) ==
    /\ t \in tasks
    /\ t.kind = "finalize_session"
    /\ t.pc = "ready"
    /\ LET s == Get(session_obj[t.sid])
           full_transcript == get_full_transcript(s)
       IN IF strip(full_transcript) # <<>>
          THEN /\ tasks' = (tasks \ {t}) \cup {[t EXCEPT !.pc = "extract"]}
               /\ final_calls' =
                      [final_calls EXCEPT
                          ![t.sid] = Append(@, FinalCall(t.sid, full_transcript))]
               /\ UNCHANGED consolidations
          ELSE IF has_audio_chunks(s)
          THEN /\ tasks' = (tasks \ {t}) \cup {[t EXCEPT !.pc = "combine"]}
               /\ consolidations' = [consolidations EXCEPT ![t.sid] = @ + 1]
               /\ UNCHANGED final_calls
          ELSE /\ tasks' = tasks \ {t}
               /\ UNCHANGED << final_calls, consolidations >>
    /\ UNCHANGED << sessions, session_obj, _extraction_running,
                    _extraction_pending, _last_extraction_time,
                    _extraction_timer, hpc, hlocals, current_session_id,
                    storage_enabled, conn_open, outbox, n_chunks,
                    called_bg, burst >>

\* the final backend call of _finalize_session returns or raises
FinalizeSessionExtractDone(t, ok, response) ==
    /\ t \in tasks
    /\ t.kind = "finalize_session"
    /\ t.pc = "extract"
    /\ session_obj' =
           IF ok
           THEN [session_obj EXCEPT
                    ![t.sid] = Some(update_extraction(Get(@), response))]
           ELSE session_obj
    /\ IF has_audio_chunks(Get(session_obj[t.sid]))
       THEN /\ tasks' = (tasks \ {t}) \cup {[t EXCEPT !.pc = "combine"]}
            /\ consolidations' = [consolidations EXCEPT ![t.sid] = @ + 1]
       ELSE /\ tasks' = tasks \ {t}
            /\ UNCHANGED consolidations
    /\ UNCHANGED << sessions, _extraction_running, _extraction_pending,
                    _last_extraction_time, _extraction_timer, hpc, hlocals,
                    current_session_id, storage_enabled, conn_open, outbox,
                    n_chunks, called_bg, final_calls, burst >>

\* the task created at lines 139-141 / 178-180 enters _save_session_audio
SaveSessionAudioStart(t) ==
    /\ t \in tasks
    /\ t.kind = "save_session_audio"
    /\ t.pc = "ready"
    /\ tasks' = (tasks \ {t}) \cup {[t EXCEPT !.pc = "combine"]}
    /\ UNCHANGED << sessions, session_obj, _extraction_running,
                    _extraction_pending, _last_extraction_time,
                    _extraction_timer, hpc, hlocals, current_session_id,
                    storage_enabled, conn_open, outbox, n_chunks,
                    called_bg, final_calls, burst,
                    consolidations >>

\* audio_storage.combine_and_save returns a directory or nothing
\* (_save_session_audio, lines 485-518)
CombineAndSaveDone(t, saved) ==
    /\ t \in tasks
    /\ t.pc = "combine"
    /\ tasks' = tasks \ {t}
    /\ session_obj' =
           IF saved
           THEN [session_obj EXCEPT
                    ![t.sid] = Some([Get(@) EXCEPT !.audio_saved_path = Some("dir")])]
           ELSE session_obj
    /\ UNCHANGED << sessions, _extraction_running, _extraction_pending,
                    _last_extraction_time, _extraction_timer, hpc, hlocals,
                    current_session_id, storage_enabled, conn_open, outbox,
                    n_chunks, called_bg, final_calls, burst, consolidations >>

(***************************************************************************)
(* The event loop's timers, the passage of time, the peer.                 *)
(***************************************************************************)
\* a call_later handle comes due: _fire_pending_extraction(sid) runs
FireTimer(sid) ==
    /\ _extraction_timer[sid] = Some(0)
    /\ SetSched(_fire_pending_extraction(Sched, sid))
    /\ UNCHANGED << sessions, session_obj, hpc, hlocals, current_session_id,
                    storage_enabled, conn_open, outbox, n_chunks,
                    called_bg, final_calls, burst, consolidations >>

Inc(o) ==
    IF o # None /\ Get(o) < _EXTRACTION_THROTTLE_SECS THEN Some(Get(o) + 1) ELSE o
Dec(o) == IF o # None /\ Get(o) > 0 THEN Some(Get(o) - 1) ELSE o

\* One time unit passes.  A due timer and a task that is ready to run are
\* served first.
Tick ==
    /\ \A sid \in DrawableIds : _extraction_timer[sid] # Some(0)
    /\ \A t \in tasks : t.pc # "ready"
    /\ \E sid \in DrawableIds :
           \/ Inc(_last_extraction_time[sid]) # _last_extraction_time[sid]
           \/ _extraction_timer[sid] # None
           \/ burst[sid] # NoBurst
    /\ _last_extraction_time' =
           [sid \in DrawableIds |-> Inc(_last_extraction_time[sid])]
    /\ _extraction_timer' = [sid \in DrawableIds |-> Dec(_extraction_timer[sid])]
    /\ burst' = [sid \in DrawableIds |-> NoBurst]
    /\ UNCHANGED << sessions, session_obj, _extraction_running,
                    _extraction_pending, tasks, hpc, hlocals,
                    current_session_id, storage_enabled, conn_open, outbox,
                    n_chunks, called_bg, final_calls, consolidations >>

\* the peer goes away, or the server closes the socket
ConnectionClosed ==
    /\ conn_open
    /\ conn_open' = FALSE
    /\ UNCHANGED << sessions, session_obj, hpc, hlocals, current_session_id,
                    storage_enabled, outbox, n_chunks, called_bg,
                    final_calls, burst, consolidations, schedVars >>

Next ==
    \/ RecvStartSession
    \/ RecvStartSessionInvalid
    \/ RecvMalformed
    \/ RecvUnknownType
    \/ \E valid \in BOOLEAN, audio_bytes \in AudioInputs, src \in Sources :
           RecvAudioChunk(valid, audio_bytes, src)
    \/ \E ok \in BOOLEAN : SaveChunkDone(ok)
    \/ \E ok \in BOOLEAN, transcript \in TranscribeOutputs :
           TranscribeDone(ok, transcript)
    \/ RecvStopSession
    \/ RecvDisconnect
    \/ \E ok \in BOOLEAN, response \in Responses : FinalExtractDone(ok, response)
    \/ \E t \in tasks : RunExtractionBgStart(t)
    \/ \E t \in tasks, ok \in BOOLEAN, response \in Responses :
           RunExtractionBgDone(t, ok, response)
    \/ \E t \in tasks : FinalizeSessionStart(t)
    \/ \E t \in tasks, ok \in BOOLEAN, response \in Responses :
           FinalizeSessionExtractDone(t, ok, response)
    \/ \E t \in tasks : SaveSessionAudioStart(t)
    \/ \E t \in tasks, saved \in BOOLEAN : CombineAndSaveDone(t, saved)
    \/ \E sid \in DrawableIds : FireTimer(sid)
    \/ Tick
    \/ ConnectionClosed

Spec == Init /\ [][Next]_vars

(***************************************************************************)
(* The event loop runs every task that is ready and every timer that is    *)
(* due, backend calls return, and time passes.                             *)
(***************************************************************************)
EventLoopStep ==
    \/ \E t \in tasks : RunExtractionBgStart(t)
    \/ \E t \in tasks, ok \in BOOLEAN, response \in Responses :
           RunExtractionBgDone(t, ok, response)
    \/ \E t \in tasks : FinalizeSessionStart(t)
    \/ \E t \in tasks, ok \in BOOLEAN, response \in Responses :
           FinalizeSessionExtractDone(t, ok, response)
    \/ \E t \in tasks : SaveSessionAudioStart(t)
    \/ \E t \in tasks, saved \in BOOLEAN : CombineAndSaveDone(t, saved)
    \/ \E sid \in DrawableIds : FireTimer(sid)

LiveSpec == Spec /\ WF_vars(EventLoopStep) /\ WF_vars(Tick)

(***************************************************************************)
(* The merge on its own: a session whose snapshot holds any short field    *)
(* value takes any sequence of extraction responses (update_extraction,    *)
(* as _handle_extraction line 312 applies it).                             *)
(***************************************************************************)
MergeAlphabet == {"a", "b", " ", "\n"}

MergeStrings == UNION { [1..k -> MergeAlphabet] : k \in 0..MaxFieldLen }

\* a response with the value as chief_complaint and a fixed medicine
MergeSnapshot(value) ==
    [EmptyExtraction EXCEPT
        !["chief_complaint"] = value, !["medicine"] = <<"a">>]

MergeInit ==
    /\ \E previous \in MergeStrings :
           session_obj =
               [sid \in SessionIds |->
                   Some([ConsultationSession EXCEPT
                            !.extraction =
                                [EmptyExtraction EXCEPT
                                    !["chief_complaint"] = previous]])]
    /\ sessions = SessionIds
    /\ _extraction_running = [sid \in SessionIds |-> None]
    /\ _extraction_pending = [sid \in SessionIds |-> None]
    /\ _last_extraction_time = [sid \in SessionIds |-> None]
    /\ _extraction_timer = [sid \in SessionIds |-> None]
    /\ tasks = {}
    /\ hpc = "receive"
    /\ hlocals = NoLocals
    /\ current_session_id = None
    /\ storage_enabled = FALSE
    /\ conn_open = TRUE
    /\ outbox = NoMessages
    /\ n_chunks = 0
    /\ called_bg = [sid \in SessionIds |-> {}]
    /\ final_calls = [sid \in SessionIds |-> <<>>]
    /\ burst = [sid \in SessionIds |-> NoBurst]
    /\ consolidations = [sid \in SessionIds |-> 0]

mergeFrame ==
    << sessions, hpc, hlocals, current_session_id, storage_enabled, conn_open,
       outbox, n_chunks, called_bg, final_calls, burst, consolidations,
       schedVars >>

\* session.update_extraction(extraction) with a response of the backend
ApplyResponse(sid, new) ==
    LET merged == update_extraction(Get(session_obj[sid]), MergeSnapshot(new))
    IN /\ \A f \in Fields : Len(merged.extraction[f]) <= MaxMergedLen
       /\ session_obj' = [session_obj EXCEPT ![sid] = Some(merged)]
       /\ UNCHANGED mergeFrame

\* session.update_extraction(session.extraction)
ApplyOwnSnapshot(sid) ==
    LET self == Get(session_obj[sid])
    IN /\ session_obj' =
              [session_obj EXCEPT
                  ![sid] = Some(update_extraction(self, self.extraction))]
       /\ UNCHANGED mergeFrame

MergeNext ==
    \/ \E sid \in SessionIds, new \in MergeStrings : ApplyResponse(sid, new)
    \/ \E sid \in SessionIds : ApplyOwnSnapshot(sid)

MergeSpec == MergeInit /\ [][MergeNext]_vars

(***************************************************************************)
(* Vocabulary of the properties.                                           *)
(***************************************************************************)
Known(sid) == session_obj[sid] # None

\* the scheduler's tasks of a session that have not finished
SchedulerTasks(sid) ==
    { t \in tasks : t.kind = "run_extraction_bg" /\ t.sid = sid }

\* the tasks of a session that wait for the extraction backend
BackendCallsOfTasks(sid) == { t \in tasks : t.sid = sid /\ t.pc = "extract" }

\* the handler waits for the extraction backend on behalf of the session
HandlerInBackendCall(sid) ==
    hpc = "final_extract" /\ current_session_id = Some(sid)

BackendCallsInFlight(sid) ==
    Cardinality(BackendCallsOfTasks(sid))
        + (IF HandlerInBackendCall(sid) THEN 1 ELSE 0)

\* this step starts a scheduler task of the session
StartsSchedulerTask(sid) == SchedulerTasks(sid)' \ SchedulerTasks(sid) # {}

\* the transcript the session had when it held k fragments
TranscriptAt(sid, k) ==
    get_full_transcript(
        [Get(session_obj[sid]) EXCEPT
            !.transcript_chunks = SubSeq(@, 1, k)])

NumFragments(sid) ==
    IF Known(sid) THEN Len(Get(session_obj[sid]).transcript_chunks) ELSE 0

MeetsMinLength(transcript) == Len(strip(transcript)) >= min_transcript_length

\* the termination of the session has run to the end of its final pass
TerminationDone(sid) ==
    /\ Known(sid)
    /\ sid \notin sessions
    /\ \A t \in tasks :
           (t.kind = "finalize_session" /\ t.sid = sid) => t.pc = "combine"

\* the receive loop is at websocket.receive_text(): a stop_session that
\* arrives now is taken
CanReceive == ENABLED RecvStopSession

(***************************************************************************)
(* C1.  At most one extraction backend call per session is in flight at    *)
(* any time, the final pass of the termination included.                   *)
(***************************************************************************)
C1_OneBackendCallInFlight ==
    \A sid \in SessionIds : BackendCallsInFlight(sid) <= 1

(***************************************************************************)
(* C2.  At most one task started by the scheduler is in flight per         *)
(* session, and the running flag is true while it is in flight.  As        *)
(* stated, the flag stays true until the task has finished:                *)
(***************************************************************************)
C2_FlagTrueUntilTaskFinished ==
    \A sid \in SessionIds :
        SchedulerTasks(sid) # {} => _extraction_running[sid] = Some(TRUE)

\* C2, as the code has it: at most one scheduler task per session is in
\* flight, and the running flag is true while it is in flight unless the
\* termination of the session has discarded the flag.
C2_SingleFlight ==
    \A sid \in SessionIds :
        /\ Cardinality(SchedulerTasks(sid)) <= 1
        /\ (SchedulerTasks(sid) # {} /\ sid \in sessions)
               => _extraction_running[sid] = Some(TRUE)
        /\ (SchedulerTasks(sid) = {} /\ sid \in sessions)
               => _extraction_running[sid] # Some(TRUE)

C2_Witness ==
    \E sid \in SessionIds :
        /\ sid \in sessions
        /\ \E t \in SchedulerTasks(sid) : t.pc = "extract"
        /\ _extraction_pending[sid] # None
        /\ _extraction_running[sid] = Some(TRUE)

(***************************************************************************)
(* C3.  Two consecutive extraction call starts of a session are at least   *)
(* the throttle interval apart.  A step in which a scheduler task that     *)
(* called the backend finishes and another one, whose transcript meets the *)
(* minimum length, is started ends one call and starts the next.           *)
(***************************************************************************)
C3_StartsSpacedByThrottle ==
    [][ \A sid \in SessionIds :
          ( /\ \E t \in SchedulerTasks(sid) \ SchedulerTasks(sid)' :
                   t.pc = "extract"
            /\ \E t \in SchedulerTasks(sid)' \ SchedulerTasks(sid) :
                   MeetsMinLength(t.transcript) )
          => Elapsed(Sched, sid) >= _EXTRACTION_THROTTLE_SECS ]_vars

(***************************************************************************)
(* C4.  A transcript that meets the minimum length and is scheduled for a  *)
(* live session leads to a backend call with that transcript or with one   *)
(* scheduled after it, unless the session terminates first.                *)
(***************************************************************************)
C4_ScheduledTranscriptIsExtracted ==
    \A sid \in SessionIds : \A k \in 1..MaxChunks :
        ( /\ sid \in sessions
          /\ NumFragments(sid) = k
          /\ MeetsMinLength(TranscriptAt(sid, k)) )
        ~> ( \/ Terminating(sid)
             \/ /\ NumFragments(sid) >= k
                /\ \E called \in called_bg[sid] :
                       IsPrefix(TranscriptAt(sid, k), called) )

\* the latest of several transcripts scheduled at one instant has reached
\* the backend
C4_Witness ==
    \E sid \in SessionIds :
        /\ sid \in sessions
        /\ burst[sid] >= 2
        /\ MeetsMinLength(TranscriptAt(sid, NumFragments(sid) - 1))
        /\ TranscriptAt(sid, NumFragments(sid)) \in called_bg[sid]

(***************************************************************************)
(* C5.  Of the transcripts of N schedule calls made within less than the   *)
(* throttle interval, the first of which found no call running and met the *)
(* minimum length, the backend never gets every intermediate one.          *)
(***************************************************************************)
C5_IntermediateTranscriptsSkipped ==
    \A sid \in SessionIds :
        ( /\ burst[sid] >= 3
          /\ MeetsMinLength(
                 TranscriptAt(sid, NumFragments(sid) - burst[sid] + 1)) ) =>
            \E k \in (NumFragments(sid) - burst[sid] + 2)..(NumFragments(sid) - 1) :
                TranscriptAt(sid, k) \notin called_bg[sid]

C7_NoTriggerFiresDuringTermination ==
    [][ \A sid \in SessionIds :
          (Terminating(sid) /\ _extraction_timer[sid] = Some(0))
              => ~StartsSchedulerTask(sid) ]_vars

C10_SilentChunkArchived ==
    [][ \A audio_bytes \in AudioInputs, source \in Sources :
          ( /\ storage_enabled
            /\ _is_silent_wav(audio_bytes)
            /\ ReachesSilenceCheck(TRUE)
            /\ RecvAudioChunk(TRUE, audio_bytes, source) )
          => hpc' = "save_chunk" ]_vars

\* C10, as the code has it: a chunk of zero samples received for a live
\* session is dropped on the spot.  The handler stays at its receive, the
\* session keeps its fragments, chunk paths and chunk counts, nothing is
\* scheduled and nothing is sent.
C10_SilentChunkDropped ==
    [][ \A source \in Sources :
          ( /\ ReachesSilenceCheck(TRUE)
            /\ RecvAudioChunk(TRUE, SilentWav, source) )
          => /\ hpc' = "receive"
             /\ UNCHANGED << session_obj, schedVars, called_bg, outbox >> ]_vars

\* the one chunk received so far, with the store enabled and the connection
\* open, has left no chunk path, no fragment and no error message
C10_Witness ==
    \E sid \in SessionIds :
        /\ current_session_id = Some(sid)
        /\ storage_enabled
        /\ conn_open
        /\ n_chunks = 1
        /\ hpc = "receive"
        /\ outbox["error"] = 0
        /\ ~has_audio_chunks(Get(session_obj[sid]))
        /\ NumFragments(sid) = 0

(***************************************************************************)
(* C11.  No information loss across merges: every field of the snapshot    *)
(* after a merge contains, as a substring, the value the field had before  *)
(* the merge.                                                              *)
(***************************************************************************)
C11_MergeKeepsPrevious ==
    [][ \A sid \in SessionIds, f \in Fields :
          (Known(sid) /\ Known(sid)') =>
              IsSubstring(Get(session_obj[sid]).extraction[f],
                          Get(session_obj[sid])'.extraction[f]) ]_vars

\* a merge has appended lines to a field that already held a value
C11_Witness ==
    \E sid \in SessionIds :
        /\ Known(sid)
        /\ Len(Get(session_obj[sid]).extraction["chief_complaint"]) > MaxFieldLen

(***************************************************************************)
(* C20.  Merge is idempotent: merge(S, S) = S for every snapshot S.        *)
(***************************************************************************)
C20_MergeIdempotent ==
    \A sid \in SessionIds :
        Known(sid) =>
            LET S == Get(session_obj[sid]).extraction
            IN merge(S, S) = S

\* a snapshot that merges have built: two different lines in one field, the
\* response's value in another, nothing in a third
C20_Witness ==
    \E sid \in SessionIds :
        /\ Known(sid)
        /\ LET S == Get(session_obj[sid]).extraction
               lines == StrippedLines(S["chief_complaint"])
           IN /\ Len(lines) = 2
              /\ lines[1] # lines[2]
              /\ S["medicine"] = <<"a">>
              /\ S["diagnosis"] = <<>>

(***************************************************************************)
(* C12.  When the backend call of a scheduler task fails, the attempt is   *)
(* dropped and the session continues: snapshot and transcript stay as they *)
(* are, no extraction_update is sent, the running flag is cleared or, if a *)
(* request is pending, that request is started, and the registry and the   *)
(* handler are left alone.                                                 *)
(***************************************************************************)
C12_FailedExtractionDropped ==
    [][ \A t \in tasks, response \in Responses :
          RunExtractionBgDone(t, FALSE, response) =>
              /\ UNCHANGED << session_obj, outbox, sessions, hpc, hlocals,
                              current_session_id >>
              /\ t \notin tasks'
              /\ IF _extraction_pending[t.sid] = None
                 THEN /\ _extraction_running'[t.sid] = Some(FALSE)
                      /\ SchedulerTasks(t.sid)' = {}
                 ELSE /\ _extraction_running'[t.sid] = Some(TRUE)
                      /\ _extraction_pending'[t.sid] = None
                      /\ \E n \in SchedulerTasks(t.sid)' :
                             /\ n.pc = "ready"
                             /\ n.transcript =
                                    Get(_extraction_pending[t.sid]).transcript
          ]_vars

\* every backend call of the scheduler has failed and the session goes on:
\* it is registered and idle, with two fragments, an empty snapshot and no
\* update sent on the open connection
C12_Witness ==
    \E sid \in SessionIds :
        /\ sid \in sessions
        /\ conn_open
        /\ hpc = "receive"
        /\ Cardinality(called_bg[sid]) = 2
        /\ SchedulerTasks(sid) = {}
        /\ _extraction_running[sid] = Some(FALSE)
        /\ Get(session_obj[sid]).extraction = EmptyExtraction
        /\ outbox["extraction_update"] = 0
        /\ NumFragments(sid) = 2

(***************************************************************************)
(* C13.  When the transcription backend fails for a chunk, the chunk is    *)
(* dropped without retry: no fragment is appended, no extraction is        *)
(* scheduled, the session stays registered and active, and the handler is  *)
(* back at its receive with the chunk forgotten.                           *)
(***************************************************************************)
C13_FailedTranscriptionDropped ==
    [][ \A transcript \in TranscribeOutputs :
          TranscribeDone(FALSE, transcript) =>
              /\ UNCHANGED << session_obj, sessions, current_session_id,
                              schedVars, called_bg >>
              /\ hpc' = "receive"
              /\ hlocals' = NoLocals ]_vars

\* every chunk received was archived, more errors were reported than the
\* messages rejected on receipt account for, and a fragment of another
\* chunk is in the transcript of the registered session
C13_Witness ==
    \E sid \in SessionIds :
        /\ sid \in sessions
        /\ current_session_id = Some(sid)
        /\ hpc = "receive"
        /\ storage_enabled
        /\ LET s == Get(session_obj[sid])
           IN Len(s.mic_chunk_paths) + Len(s.tab_chunk_paths) = n_chunks
        /\ outbox["error"] > MaxOther
        /\ NumFragments(sid) >= 1

(***************************************************************************)
(* C14.  A malformed or unknown inbound message (unparseable JSON, an      *)
(* unknown type, a message that fails validation) is answered with an      *)
(* error message and the session continues: registry, session state and    *)
(* active session are unchanged and the handler is at its receive again.   *)
(* json.loads (line 62) and the re-raise of _handle_start_session (line    *)
(* 220) reach the except clause of lines 153-190, which ends the session.  *)
(***************************************************************************)
C14_ProtocolErrorKeepsSession ==
    [][ ( /\ current_session_id # None
          /\ \/ RecvMalformed
             \/ RecvStartSessionInvalid
             \/ RecvUnknownType
             \/ \E audio_bytes \in AudioInputs, msg_source \in Sources :
                    RecvAudioChunk(FALSE, audio_bytes, msg_source) )
        => /\ outbox'["error"] > outbox["error"]
           /\ hpc' = "receive"
           /\ UNCHANGED << sessions, session_obj, current_session_id >> ]_vars

(***************************************************************************)
(* The start_session handler over the message classes of                   *)
(* models/websocket_messages.py and models/patient.py.  RecvStartSession   *)
(* above is the handler given a start message that carries every           *)
(* attribute lines 203-210 read; StartSessionMessage declares only `type`  *)
(* and `patient`, and pydantic drops undeclared keys of the input.         *)
(***************************************************************************)
StartSessionMessageFields == {"type", "patient"}

\* Patient: Field constraints and the two validators (patient.py 7-23)
ValidPatient(patient) ==
    /\ Len(patient.name) >= 1
    /\ strip(patient.name) # <<>>
    /\ patient.age \in 0..150
    /\ Len(patient.gender) >= 1
    /\ strip(patient.gender) # <<>>

PatientNames == {<<>>, <<" ">>, <<"a">>}
PatientAges == {-1, 0, 150, 151}
PatientGenders == {<<>>, <<" ">>, <<"f">>}
AppointmentIds == {None, Some("A1")}

\* the start_session messages a client sends
StartMessages ==
    [ type : {"start_session"},
      patient : [name : PatientNames, age : PatientAges,
                 gender : PatientGenders],
      appointmentId : AppointmentIds ]

\* StartSessionMessage(**message) raises a ValidationError (line 200), or
\* reading start_msg.appointmentId raises an AttributeError (line 205)
StartSessionRaises(message) ==
    \/ ~ValidPatient(message.patient)
    \/ "appointmentId" \notin StartSessionMessageFields

\* a connection that has just received a start_session message
StartInit ==
    /\ sessions = {}
    /\ session_obj = [sid \in SessionIds |-> None]
    /\ _extraction_running = [sid \in SessionIds |-> None]
    /\ _extraction_pending = [sid \in SessionIds |-> None]
    /\ _last_extraction_time = [sid \in SessionIds |-> None]
    /\ _extraction_timer = [sid \in SessionIds |-> None]
    /\ tasks = {}
    /\ hpc = "start_session"
    /\ hlocals \in [message : StartMessages]
    /\ current_session_id = None
    /\ storage_enabled \in BOOLEAN
    /\ conn_open = TRUE
    /\ outbox = NoMessages
    /\ n_chunks = 0
    /\ called_bg = [sid \in SessionIds |-> {}]
    /\ final_calls = [sid \in SessionIds |-> <<>>]
    /\ burst = [sid \in SessionIds |-> NoBurst]
    /\ consolidations = [sid \in SessionIds |-> 0]

\* lines 67-70 with _handle_start_session (192-220), and the except clause
\* of handle_connection (153-190) for what it raises
HandleStartSession ==
    /\ hpc = "start_session"
    /\ IF StartSessionRaises(hlocals.message)
       THEN /\ outbox' = Send(Send(outbox,
                                   ErrorMessage("Failed to start session")),
                              ErrorMessage("Internal error"))
            /\ EnterTermination
            /\ UNCHANGED << session_obj, current_session_id >>
       ELSE /\ session_obj' =
                   [session_obj EXCEPT ![FreshId] = Some(ConsultationSession)]
            /\ sessions' = sessions \cup {FreshId}
            /\ current_session_id' = Some(FreshId)
            /\ hpc' = "receive"
            /\ UNCHANGED << outbox, consolidations, final_calls, schedVars >>
    /\ UNCHANGED << hlocals, storage_enabled, conn_open, n_chunks, called_bg,
                    burst >>

StartNext == HandleStartSession

StartSpec == StartInit /\ [][StartNext]_vars

(***************************************************************************)
(* C15.  A start_session message with a valid patient, with or without an  *)
(* appointment id, creates exactly one new session with a fresh id in the  *)
(* registry and makes it the active session of the connection, whose       *)
(* handler goes on receiving.                                              *)
(***************************************************************************)
C15_ValidStartCreatesSession ==
    [][ ( /\ hpc = "start_session"
          /\ ValidPatient(hlocals.message.patient) )
        => \E sid \in SessionIds :
               /\ sid \notin sessions
               /\ sessions' = sessions \cup {sid}
               /\ session_obj[sid] = None
               /\ session_obj'[sid] # None
               /\ current_session_id' = Some(sid)
               /\ hpc' = "receive" ]_vars

(***************************************************************************)
(* C16.  An audio_chunk received while the connection has no active        *)
(* session is answered with an error message and nothing else happens: no  *)
(* session is created, no audio is stored, no backend is called, no task   *)
(* is started, and the handler is at its receive for the next message.     *)
(***************************************************************************)
C16_ChunkWithoutSessionRejected ==
    [][ \A valid \in BOOLEAN, audio_bytes \in AudioInputs,
           msg_source \in Sources :
          ( /\ current_session_id = None
            /\ RecvAudioChunk(valid, audio_bytes, msg_source) )
          => /\ outbox'["error"] = outbox["error"] + 1
             /\ outbox'["extraction_update"] = outbox["extraction_update"]
             /\ hpc' = "receive"
             /\ UNCHANGED << sessions, session_obj, current_session_id,
                             hlocals, n_chunks, called_bg, final_calls,
                             consolidations, schedVars >> ]_vars

\* an error has been reported on a connection that never had a session,
\* and the handler is receiving
C16_Witness ==
    /\ current_session_id = None
    /\ hpc = "receive"
    /\ conn_open
    /\ outbox["error"] = 1
    /\ sessions = {}
    /\ \A sid \in SessionIds : session_obj[sid] = None
    /\ tasks = {}
    /\ n_chunks = 0
    /\ ENABLED RecvStartSession

(***************************************************************************)
(* C17.  On each termination path (stop_session, disconnect, fatal error)  *)
(* the active session of the connection is out of the registry when the    *)
(* handler has returned, and a session that has left the registry is       *)
(* never put back.                                                         *)
(***************************************************************************)
C17_SessionRemovedForGood ==
    [][ /\ hpc' = "returned" =>
              \A sid \in SessionIds :
                  session_obj'[sid] # None => sid \notin sessions'
        /\ \A sid \in SessionIds :
              (session_obj[sid] # None /\ sid \notin sessions)
                  => sid \notin sessions' ]_vars

\* the handler has returned from a session that had a transcript, its
\* final extraction is done, every task has finished, the session is gone
C17_Witness ==
    \E sid \in SessionIds :
        /\ hpc = "returned"
        /\ session_obj[sid] # None
        /\ current_session_id = Some(sid)
        /\ sid \notin sessions
        /\ final_calls[sid] # <<>>
        /\ tasks = {}

(***************************************************************************)
(* SessionManager on its own: create_session, end_session and get_session  *)
(* applied to any session and any id, present or not.  The dict            *)
(* self.sessions is the pair (sessions, session_obj): its keys, and the    *)
(* object stored under a key.                                              *)
(***************************************************************************)
RegistryIds == {"s1", "s2"}

RegistryComplaints == UNION {[1..k -> {"a", "b"}] : k \in 0..2}

\* the sessions handed to create_session
RegistrySessions ==
    { [ session_id |-> id,
        state |-> [ConsultationSession EXCEPT
                      !.extraction = [EmptyExtraction EXCEPT
                                         !["chief_complaint"] = c]] ] :
      id \in RegistryIds, c \in RegistryComplaints }

\* __init__ (lines 11-13)
RegistryInit ==
    /\ sessions = {}
    /\ session_obj = [sid \in RegistryIds |-> None]
    /\ _extraction_running = [sid \in SessionIds |-> None]
    /\ _extraction_pending = [sid \in SessionIds |-> None]
    /\ _last_extraction_time = [sid \in SessionIds |-> None]
    /\ _extraction_timer = [sid \in SessionIds |-> None]
    /\ tasks = {}
    /\ hpc = "receive"
    /\ hlocals = NoLocals
    /\ current_session_id = None
    /\ storage_enabled = FALSE
    /\ conn_open = TRUE
    /\ outbox = NoMessages
    /\ n_chunks = 0
    /\ called_bg = [sid \in SessionIds |-> {}]
    /\ final_calls = [sid \in SessionIds |-> <<>>]
    /\ burst = [sid \in SessionIds |-> NoBurst]
    /\ consolidations = [sid \in SessionIds |-> 0]

registryFrame ==
    << hlocals, current_session_id, storage_enabled, conn_open, outbox,
       n_chunks, called_bg, final_calls, burst, consolidations, schedVars >>

\* create_session has no raise statement and no check of the key (15-19)
create_session_raises(session) == FALSE

\* create_session (lines 15-19)
CreateSession(session) ==
    /\ hpc = "receive"
    /\ IF create_session_raises(session)
       THEN /\ hpc' = "raised"
            /\ UNCHANGED << sessions, session_obj >>
       ELSE /\ sessions' = sessions \cup {session.session_id}
            /\ session_obj' =
                   [session_obj EXCEPT
                       ![session.session_id] = Some(session.state)]
            /\ UNCHANGED hpc
    /\ UNCHANGED registryFrame

\* end_session (lines 25-29)
EndSession(session_id) ==
    /\ hpc = "receive"
    /\ sessions' = end_session(sessions, session_id)
    /\ UNCHANGED << session_obj, hpc >>
    /\ UNCHANGED registryFrame

RegistryNext ==
    \/ \E session \in RegistrySessions : CreateSession(session)
    \/ \E session_id \in RegistryIds : EndSession(session_id)

RegistrySpec == RegistryInit /\ [][RegistryNext]_vars

(***************************************************************************)
(* C18.  create_session with an id that is already in the registry         *)
(* reports an error and leaves the session stored under that id as it      *)
(* was; it never replaces a stored session.                                *)
(***************************************************************************)
C18_DuplicateCreateRejected ==
    [][ \A session \in RegistrySessions :
          ( /\ session.session_id \in sessions
            /\ CreateSession(session) )
          => /\ hpc' = "raised"
             /\ get_session(session.session_id)'
                    = get_session(session.session_id) ]_vars

(***************************************************************************)
(* C19.  Transcript fragments are append-only and ordered by arrival: no   *)
(* step changes, removes or reorders a fragment already present; a step    *)
(* adds at most one fragment, at the end, labelled with the track of the   *)
(* chunk being processed; and full_transcript() grows by exactly the line  *)
(* "<Speaker>: <text>" of that fragment, after a line break when it is not *)
(* the first, whatever the per-track chunk counters are.                   *)
(***************************************************************************)
C19_FragmentsAppendOnlyInArrivalOrder ==
    [][ \A sid \in SessionIds :
          (session_obj[sid] # None) =>
              LET old == Get(session_obj[sid])
                  new == Get(session_obj'[sid])
                  n == Len(old.transcript_chunks)
              IN /\ session_obj'[sid] # None
                 /\ Len(new.transcript_chunks) \in {n, n + 1}
                 /\ SubSeq(new.transcript_chunks, 1, n) = old.transcript_chunks
                 /\ Len(new.transcript_chunks) = n + 1 =>
                       LET chunk == new.transcript_chunks[n + 1]
                       IN /\ hpc = "transcribe"
                          /\ chunk.source = hlocals.source
                          /\ chunk.speaker = Speaker(hlocals.source)
                          /\ strip(chunk.text) = chunk.text
                          /\ chunk.text # <<>>
                          /\ get_full_transcript(new) =
                                 (IF n = 0 THEN <<>>
                                  ELSE get_full_transcript(old) \o <<"\n">>)
                                 \o SpeakerPrefix(chunk.speaker)
                                 \o chunk.text ]_vars

\* the tab track spoke first and last, the mic track in between, while the
\* mic counter is behind the tab counter: the transcript reads in that order
C19_Witness ==
    \E sid \in SessionIds :
        /\ session_obj[sid] # None
        /\ LET s == Get(session_obj[sid])
           IN /\ Len(s.transcript_chunks) = 3
              /\ s.transcript_chunks[1].speaker = "Patient"
              /\ s.transcript_chunks[2].speaker = "Doctor"
              /\ s.transcript_chunks[3].speaker = "Patient"
              /\ s.mic_chunk_count = 1
              /\ s.tab_chunk_count = 2
              /\ get_full_transcript(s) =
                     SpeakerPrefix("Patient") \o <<"h", "i">> \o <<"\n">>
                     \o SpeakerPrefix("Doctor") \o <<"h", "i">> \o <<"\n">>
                     \o SpeakerPrefix("Patient") \o <<"h", "i">>

(***************************************************************************)
(* C21.  Merge is substring-absorbing: for a snapshot S and a snapshot sub *)
(* whose every field is a substring of the same field of S (empty fields   *)
(* included), merge(S, sub) = S; and when the previous value of a field is *)
(* a substring of the new value, the merged field is the new value.        *)
(***************************************************************************)
C21_MergeAbsorbsSubstrings ==
    \A sid \in SessionIds :
        Known(sid) =>
            LET S == Get(session_obj[sid]).extraction
            IN /\ \A v \in MergeStrings, m \in {<<>>, <<"a">>} :
                      LET sub == [EmptyExtraction EXCEPT
                                     !["chief_complaint"] = v,
                                     !["medicine"] = m]
                      IN (\A f \in Fields : IsSubstring(sub[f], S[f]))
                             => merge(S, sub) = S
               /\ \A f \in Fields, v \in MergeStrings :
                      IsSubstring(S[f], v) => _merge_field(S[f], v) = v

\* a snapshot built by merges with a field of two lines, which has a
\* non-empty proper substring that spans the line break
C21_Witness ==
    \E sid \in SessionIds :
        /\ Known(sid)
        /\ LET S == Get(session_obj[sid]).extraction
           IN /\ S["medicine"] = <<"a">>
              /\ Len(StrippedLines(S["chief_complaint"])) = 2
              /\ \E v \in MergeStrings :
                     /\ Len(v) = MaxFieldLen
                     /\ v # S["chief_complaint"]
                     /\ IsSubstring(v, S["chief_complaint"])
                     /\ IsSubstring(<<"\n">>, v)

(***************************************************************************)
(* Vocabulary of the line comparison of a merge.                           *)
(***************************************************************************)
\* both values non-empty, different, neither a substring of the other
LineBranch(existing, new) ==
    /\ existing # <<>>
    /\ new # <<>>
    /\ existing # new
    /\ ~IsSubstring(new, existing)
    /\ ~IsSubstring(existing, new)

Overlaps(a, b) == IsSubstring(a, b) \/ IsSubstring(b, a)

\* the new segments that overlap no existing segment, in their order
Qualifying(new_segments, existing_segments) ==
    SelectSeq(new_segments,
              LAMBDA n : \A i \in 1..Len(existing_segments) :
                             ~Overlaps(n, existing_segments[i]))

\* the segments a merged value holds after the previous value
AppendedSegments(existing, merged) ==
    IF merged = existing THEN <<>>
    ELSE SplitLines(SubSeq(merged, Len(existing) + 2, Len(merged)), <<>>)

(***************************************************************************)
(* C22.  When both values are non-empty, different, and neither is a       *)
(* substring of the other, the merged value is the previous text verbatim  *)
(* followed by, in their original order, exactly the new segments that     *)
(* overlap (as substring or superstring) no existing segment, where        *)
(* segments are the lines with surrounding whitespace trimmed and blank    *)
(* lines dropped; with no such segment the previous value is returned.     *)
(***************************************************************************)
C22_UniqueTrimmedSegmentsAppended ==
    \A sid \in SessionIds :
        Known(sid) =>
            \A new \in MergeStrings :
                LET existing == Get(session_obj[sid]).extraction["chief_complaint"]
                    merged == _merge_field(existing, new)
                    q == Qualifying(StrippedLines(new), StrippedLines(existing))
                IN LineBranch(existing, new) =>
                       /\ IsPrefix(existing, merged)
                       /\ (q = <<>>) = (merged = existing)
                       /\ merged # existing => merged[Len(existing) + 1] = "\n"
                       /\ AppendedSegments(existing, merged) = q

\* the claim with the newline-delimited segments taken as they are
C22_RawSegmentsAppended ==
    \A sid \in SessionIds :
        Known(sid) =>
            \A new \in MergeStrings :
                LET existing == Get(session_obj[sid]).extraction["chief_complaint"]
                    merged == _merge_field(existing, new)
                    q == Qualifying(SplitLines(new, <<>>),
                                    SplitLines(existing, <<>>))
                IN LineBranch(existing, new) =>
                       /\ IsPrefix(existing, merged)
                       /\ (q = <<>>) = (merged = existing)
                       /\ merged # existing => merged[Len(existing) + 1] = "\n"
                       /\ AppendedSegments(existing, merged) = q

\* a snapshot built by merges whose field has two segments, and a new
\* value of two segments of which the merge appends one and skips one
C22_Witness ==
    \E sid \in SessionIds :
        /\ Known(sid)
        /\ LET S == Get(session_obj[sid]).extraction
               existing == S["chief_complaint"]
           IN /\ S["medicine"] = <<"a">>
              /\ Len(StrippedLines(existing)) = 2
              /\ \E new \in MergeStrings :
                     /\ LineBranch(existing, new)
                     /\ Len(StrippedLines(new)) = 2
                     /\ Len(Qualifying(StrippedLines(new),
                                       StrippedLines(existing))) = 1

(***************************************************************************)
(* C23.  Scenario: after start_session and three non-silent mic chunks     *)
(* that are transcribed, with the session live, time passing and backend   *)
(* calls returning, the extraction backend is called with a transcript    *)
(* that holds the three fragments as its first three "Doctor: " lines, in  *)
(* arrival order (a later fragment may have been added to it), unless the  *)
(* session terminates first.                                               *)
(***************************************************************************)
ThreeDoctorLines ==
    LET line == SpeakerPrefix("Doctor") \o <<"h", "i">>
    IN line \o <<"\n">> \o line \o <<"\n">> \o line

ThreeMicFragments(sid) ==
    /\ NumFragments(sid) = 3
    /\ \A i \in 1..3 :
           LET chunk == Get(session_obj[sid]).transcript_chunks[i]
           IN chunk.source = "mic" /\ chunk.text = <<"h", "i">>

\* the transcript starts with the three lines
ContainsThreeDoctorLines(transcript) ==
    IsPrefix(SplitLines(ThreeDoctorLines, <<>>), SplitLines(transcript, <<>>))

WavHeaderSize == 44

RIFF == <<82, 73, 70, 70>>
WAVE == <<87, 65, 86, 69>>
FMT == <<102, 109, 116, 32>>
DATA == <<100, 97, 116, 97>>

\* struct.pack('<H', n) and struct.pack('<I', n): width little-endian bytes
pack(n, width) == [i \in 1..width |-> (n \div (256 ^ (i - 1))) % 256]

\* struct.unpack('<H', b)[0] and struct.unpack('<I', b)[0]
RECURSIVE unpack(_)
unpack(b) == IF b = <<>> THEN 0 ELSE Head(b) + 256 * unpack(Tail(b))

\* data[a:b] of Python, for 0 <= a <= b
Slice(data, a, b) ==
    SubSeq(data, a + 1, IF b < Len(data) THEN b ELSE Len(data))

validate_wav_header(data) ==
    /\ Len(data) >= WavHeaderSize
    /\ Slice(data, 0, 4) = RIFF
    /\ Slice(data, 8, 12) = WAVE

\* lines 46-52: the bytes of every chunk after its 44-byte header
RECURSIVE PcmData(_)
PcmData(chunks) ==
    IF chunks = <<>> THEN <<>>
    ELSE (IF Len(Head(chunks)) > WavHeaderSize
          THEN SubSeq(Head(chunks), WavHeaderSize + 1, Len(Head(chunks)))
          ELSE <<>>) \o PcmData(Tail(chunks))

\* every byte of every chunk
RECURSIVE AllBytes(_)
AllBytes(chunks) ==
    IF chunks = <<>> THEN <<>> ELSE Head(chunks) \o AllBytes(Tail(chunks))

\* lines 34-40 and 54-76: the header rebuilt from the format fields of the
\* first chunk and the size of the data, followed by the data
BuildWav(first_chunk, pcm_data) ==
    LET audio_format == unpack(Slice(first_chunk, 20, 22))
        num_channels == unpack(Slice(first_chunk, 22, 24))
        sample_rate == unpack(Slice(first_chunk, 24, 28))
        byte_rate == unpack(Slice(first_chunk, 28, 32))
        block_align == unpack(Slice(first_chunk, 32, 34))
        bits_per_sample == unpack(Slice(first_chunk, 34, 36))
        data_size == Len(pcm_data)
        file_size == data_size + 36
        header == RIFF \o pack(file_size, 4) \o WAVE \o FMT \o pack(16, 4)
                  \o pack(audio_format, 2) \o pack(num_channels, 2)
                  \o pack(sample_rate, 4) \o pack(byte_rate, 4)
                  \o pack(block_align, 2) \o pack(bits_per_sample, 2)
                  \o DATA \o pack(data_size, 4)
    IN header \o pcm_data

\* a consolidation that copies the chunks whole, headers included
combine_keeping_chunk_headers(chunks) ==
    IF chunks = <<>> THEN None
    ELSE IF ~validate_wav_header(chunks[1]) THEN None
    ELSE Some(BuildWav(chunks[1], AllBytes(chunks)))

\* combine_wav_chunks over the contents of the files at chunk_paths, in the
\* order of chunk_paths; None: it raises ValueError
combine_wav_chunks(chunks) ==
    IF chunks = <<>> THEN None
    ELSE IF ~validate_wav_header(chunks[1]) THEN None
    ELSE Some(BuildWav(chunks[1], PcmData(chunks)))

\* The format fields of a recording: 16 kHz mono and 44.1 kHz stereo, both
\* 16-bit PCM.
WavFormats ==
    { [audio_format |-> 1, num_channels |-> 1, sample_rate |-> 16000,
       bits_per_sample |-> 16],
      [audio_format |-> 1, num_channels |-> 2, sample_rate |-> 44100,
       bits_per_sample |-> 16] }

\* the WAV file a recorder writes for a payload
WavChunk(format, payload) ==
    LET block_align == format.num_channels * (format.bits_per_sample \div 8)
    IN RIFF \o pack(Len(payload) + 36, 4) \o WAVE \o FMT \o pack(16, 4)
       \o pack(format.audio_format, 2) \o pack(format.num_channels, 2)
       \o pack(format.sample_rate, 4)
       \o pack(format.sample_rate * block_align, 4)
       \o pack(block_align, 2) \o pack(format.bits_per_sample, 2)
       \o DATA \o pack(Len(payload), 4) \o payload

(***************************************************************************)
(* The archive of a session (services/audio_storage.py): the names of the  *)
(* chunk files, their order, and the consolidation of a track.             *)
(***************************************************************************)
MaxArchived == 2

\* str(n) as ASCII codes
RECURSIVE Decimal(_)
Decimal(n) ==
    IF n < 10 THEN <<48 + n>> ELSE Decimal(n \div 10) \o <<48 + (n % 10)>>

\* f"{n:04d}": padded with zeros to four digits, longer when n needs more
RECURSIVE ZeroPad(_, _)
ZeroPad(digits, width) ==
    IF Len(digits) >= width THEN digits ELSE ZeroPad(<<48>> \o digits, width)

SourceCodes(source) ==
    IF source = "tab" THEN <<116, 97, 98>> ELSE <<109, 105, 99>>

\* Path.name of a chunk path: f"{source}_chunk_{chunk_index:04d}.wav"
ChunkName(path) ==
    SourceCodes(path.source) \o <<95, 99, 104, 117, 110, 107, 95>>
        \o ZeroPad(Decimal(path.chunk_index), 4) \o <<46, 119, 97, 118>>

\* a < b on Python strings
RECURSIVE StrLess(_, _)
StrLess(a, b) ==
    IF b = <<>> THEN FALSE
    ELSE IF a = <<>> THEN TRUE
    ELSE IF Head(a) # Head(b) THEN Head(a) < Head(b)
    ELSE StrLess(Tail(a), Tail(b))

\* sorted(paths, key=lambda p: p.name); sorted(paths) of paths of one
\* directory orders them the same way
RECURSIVE sorted_by_name(_)
sorted_by_name(paths) ==
    IF paths = <<>> THEN <<>>
    ELSE LET m == CHOOSE i \in 1..Len(paths) :
                      \A j \in 1..Len(paths) :
                          /\ ~StrLess(ChunkName(paths[j]), ChunkName(paths[i]))
                          /\ (j < i =>
                                ChunkName(paths[j]) # ChunkName(paths[i]))
             rest == [k \in 1..(Len(paths) - 1) |->
                         IF k < m THEN paths[k] ELSE paths[k + 1]]
         IN <<paths[m]>> \o sorted_by_name(rest)

\* The sequence indices of the chunks in the model: a sample of a track's
\* chunks (the sort orders a sample as it orders the whole track).
ArchiveIndices == {0, 1, 9999, 10000}

TruncatedChunk == <<82, 73, 70, 70, 0, 0>>

\* the files save_chunk has written: recordings of three payloads in two
\* formats, and a file cut short
ArchiveChunks ==
    { WavChunk(format, payload) :
        format \in WavFormats, payload \in {<<>>, <<1>>, <<2, 3>>} }
    \cup {TruncatedChunk}

\* sequences without repetition of 1..MaxArchived indices
ArchiveOrders ==
    { order \in UNION { [1..k -> ArchiveIndices] : k \in 1..MaxArchived } :
        \A i, j \in 1..Len(order) : i # j => order[i] # order[j] }

\* a session that has ended with chunks of one track on disk and its
\* _save_session_audio task created
ArchiveInit ==
    /\ \E source \in {"mic", "tab"}, order \in ArchiveOrders :
         LET paths == [i \in 1..Len(order) |-> ChunkPath("s1", source, order[i])]
             pathSet == { paths[i] : i \in 1..Len(order) }
         IN /\ session_obj =
                   [sid \in SessionIds |->
                       Some(IF source = "tab"
                            THEN [ConsultationSession EXCEPT
                                     !.tab_chunk_paths = paths]
                            ELSE [ConsultationSession EXCEPT
                                     !.mic_chunk_paths = paths])]
            /\ \E disk \in [pathSet -> ArchiveChunks] :
                   hlocals = [disk |-> disk, output |-> None]
    /\ sessions = {}
    /\ _extraction_running = [sid \in SessionIds |-> None]
    /\ _extraction_pending = [sid \in SessionIds |-> None]
    /\ _last_extraction_time = [sid \in SessionIds |-> None]
    /\ _extraction_timer = [sid \in SessionIds |-> None]
    /\ tasks = { [ kind |-> "save_session_audio", sid |-> "s1",
                   transcript |-> <<>>, websocket |-> None, pc |-> "ready" ] }
    /\ hpc = "returned"
    /\ current_session_id = Some("s1")
    /\ storage_enabled = TRUE
    /\ conn_open = FALSE
    /\ outbox = NoMessages
    /\ n_chunks = 0
    /\ called_bg = [sid \in SessionIds |-> {}]
    /\ final_calls = [sid \in SessionIds |-> <<>>]
    /\ burst = [sid \in SessionIds |-> NoBurst]
    /\ consolidations = [sid \in SessionIds |-> 1]

\* lines 107-123 for one track: the file written, or None when the track
\* is empty or combine_wav_chunks raises
CombinedTrack(disk, chunk_paths) ==
    IF chunk_paths = <<>> THEN None
    ELSE LET sorted_paths == sorted_by_name(sorted_by_name(chunk_paths))
         IN combine_wav_chunks([i \in 1..Len(sorted_paths) |->
                                   disk[sorted_paths[i]]])

\* _save_session_audio (485-518) with combine_and_save (61-141) on the
\* files of the disk
CombineAndSave(t) ==
    /\ t \in tasks
    /\ t.kind = "save_session_audio"
    /\ t.pc = "combine"
    /\ tasks' = tasks \ {t}
    /\ LET s == Get(session_obj[t.sid])
           doctor == CombinedTrack(hlocals.disk, s.mic_chunk_paths)
           raised_mic == s.mic_chunk_paths # <<>> /\ doctor = None
           patient == IF raised_mic THEN None
                      ELSE CombinedTrack(hlocals.disk, s.tab_chunk_paths)
           raised == raised_mic \/ (s.tab_chunk_paths # <<>> /\ patient = None)
           saved == storage_enabled /\ has_audio_chunks(s) /\ ~raised
       IN /\ hlocals' =
                 [hlocals EXCEPT
                     !.output = Some([doctor |-> doctor, patient |-> patient])]
          /\ session_obj' =
                 IF saved
                 THEN [session_obj EXCEPT
                          ![t.sid] = Some([s EXCEPT
                                              !.audio_saved_path = Some("dir")])]
                 ELSE session_obj
    /\ UNCHANGED << sessions, _extraction_running, _extraction_pending,
                    _last_extraction_time, _extraction_timer, hpc,
                    current_session_id, storage_enabled, conn_open, outbox,
                    n_chunks, called_bg, final_calls, burst, consolidations >>

ArchiveNext ==
    \/ \E t \in tasks : SaveSessionAudioStart(t)
    \/ \E t \in tasks : CombineAndSave(t)

ArchiveSpec == ArchiveInit /\ [][ArchiveNext]_vars

(***************************************************************************)
(* Vocabulary of the archive properties.                                   *)
(***************************************************************************)
\* the chunk paths of a track of the session
TrackPaths(sid, source) ==
    IF source = "tab" THEN Get(session_obj[sid]).tab_chunk_paths
    ELSE Get(session_obj[sid]).mic_chunk_paths

\* the file written for a track, once combine_and_save has run
TrackOutput(source) ==
    IF source = "tab" THEN Get(hlocals.output).patient
    ELSE Get(hlocals.output).doctor

Consolidated == hlocals.output # None

\* the bytes of a chunk file after its header
Payload(file) ==
    IF Len(file) > WavHeaderSize
    THEN SubSeq(file, WavHeaderSize + 1, Len(file))
    ELSE <<>>

RECURSIVE TotalPayload(_, _)
TotalPayload(disk, paths) ==
    IF paths = <<>> THEN 0
    ELSE Len(Payload(disk[Head(paths)])) + TotalPayload(disk, Tail(paths))

\* every chunk of the track is a WAV file with a whole header
AllWav(disk, paths) ==
    \A i \in 1..Len(paths) : validate_wav_header(disk[paths[i]])

(***************************************************************************)
(* C24.  Combining the k chunks of a track, each a WAV file with a 44-byte *)
(* header, with P payload bytes in all, writes a file of exactly 44 + P    *)
(* bytes whose data-size field is P and whose RIFF size field is P + 36;   *)
(* its format fields (bytes 20 to 36: format tag, channels, sample rate,   *)
(* byte rate, block align, bit depth) are those of a chunk of the track,   *)
(* hence of every chunk when the chunks share their format.                *)
(***************************************************************************)
C24_CombinedSizeFieldsAndFormat ==
    Consolidated =>
        \A sid \in SessionIds, source \in {"mic", "tab"} :
            LET paths == TrackPaths(sid, source)
                disk == hlocals.disk
                P == TotalPayload(disk, paths)
            IN (paths # <<>> /\ AllWav(disk, paths)) =>
                   /\ TrackOutput(source) # None
                   /\ LET out == Get(TrackOutput(source))
                      IN /\ Len(out) = WavHeaderSize + P
                         /\ unpack(Slice(out, 40, 44)) = P
                         /\ unpack(Slice(out, 4, 8)) = P + 36
                         /\ \E i \in 1..Len(paths) :
                                Slice(out, 20, 36) = Slice(disk[paths[i]], 20, 36)
                         /\ (\A i, j \in 1..Len(paths) :
                                Slice(disk[paths[i]], 20, 36)
                                    = Slice(disk[paths[j]], 20, 36))
                            => \A i \in 1..Len(paths) :
                                   Slice(out, 20, 36)
                                       = Slice(disk[paths[i]], 20, 36)

\* two stereo chunks of one and two payload bytes have been combined into
\* a stereo file of 47 bytes
C24_Witness ==
    /\ Consolidated
    /\ \E sid \in SessionIds :
         LET paths == TrackPaths(sid, "mic")
             disk == hlocals.disk
         IN /\ Len(paths) = 2
            /\ AllWav(disk, paths)
            /\ Len(Payload(disk[paths[1]])) = 2
            /\ Len(Payload(disk[paths[2]])) = 1
            /\ unpack(Slice(disk[paths[1]], 22, 24)) = 2
            /\ unpack(Slice(disk[paths[2]], 22, 24)) = 2
            /\ TrackOutput("mic") # None
            /\ Len(Get(TrackOutput("mic"))) = 47
            /\ unpack(Slice(Get(TrackOutput("mic")), 24, 28)) = 44100

\* the paths by increasing sequence index
RECURSIVE ByIndex(_)
ByIndex(paths) ==
    IF paths = <<>> THEN <<>>
    ELSE LET m == CHOOSE i \in 1..Len(paths) :
                      \A j \in 1..Len(paths) :
                          paths[i].chunk_index <= paths[j].chunk_index
             rest == [k \in 1..(Len(paths) - 1) |->
                         IF k < m THEN paths[k] ELSE paths[k + 1]]
         IN <<paths[m]>> \o ByIndex(rest)

RECURSIVE PayloadsOf(_, _)
PayloadsOf(disk, paths) ==
    IF paths = <<>> THEN <<>>
    ELSE Payload(disk[Head(paths)]) \o PayloadsOf(disk, Tail(paths))

(***************************************************************************)
(* C25.  For each non-empty track, the consolidated file holds the chunk   *)
(* payloads in increasing sequence index, for any chunks stored and        *)
(* whatever the order of the chunk paths: the order by zero-padded file    *)
(* name is the order by sequence index.  The name pads the index to four   *)
(* digits (save_chunk, line 53): from index 10000 on it has five, and      *)
(* "mic_chunk_10000.wav" sorts before "mic_chunk_9999.wav".                *)
(***************************************************************************)
C25_PayloadsInIndexOrder ==
    Consolidated =>
        \A sid \in SessionIds, source \in {"mic", "tab"} :
            LET paths == TrackPaths(sid, source)
                disk == hlocals.disk
            IN (paths # <<>> /\ AllWav(disk, paths)) =>
                   /\ sorted_by_name(paths) = ByIndex(paths)
                   /\ TrackOutput(source) # None
                   /\ Payload(Get(TrackOutput(source)))
                          = PayloadsOf(disk, ByIndex(paths))

(***************************************************************************)
(* The silence filter on its own: a connection with a live session         *)
(* receives audio chunks built from a header, a list of 16-bit samples     *)
(* and a trailing byte, or cut at or below the header size.                *)
(***************************************************************************)
\* amplitudes around the threshold of 200 and at the ends of the range
SampleValues == {0, 199, 200, -199, -200, 32767, -32768}

\* lists of at most two samples; -32768 at most once, which keeps the sum of
\* the squares within the integers of the checker
SampleSeqs ==
    { samples \in UNION { [1..k -> SampleValues] : k \in 0..2 } :
        Cardinality({ i \in 1..Len(samples) : samples[i] = -32768 }) <= 1 }

\* a sample as the two bytes of a little-endian signed 16-bit integer
SampleBytes(sample) == pack((sample + 65536) % 65536, 2)

RECURSIVE EncodeSamples(_)
EncodeSamples(samples) ==
    IF samples = <<>> THEN <<>>
    ELSE SampleBytes(Head(samples)) \o EncodeSamples(Tail(samples))

SilenceHeaders == {WavHeader, WavChunk(CHOOSE f \in WavFormats : TRUE, <<>>)}

SilenceTails == {<<>>, <<0>>, <<1>>}

Buffer(header, samples, tail) == header \o EncodeSamples(samples) \o tail

\* buffers of fewer bytes than a header
ShortBuffers == {<<>>, SubSeq(WavHeader, 1, HeaderSize - 1)}

SilenceInputs ==
    { Buffer(header, samples, tail) :
        header \in SilenceHeaders, samples \in SampleSeqs,
        tail \in SilenceTails }
    \cup ShortBuffers

SilenceInit ==
    /\ sessions = SessionIds
    /\ session_obj = [sid \in SessionIds |-> Some(ConsultationSession)]
    /\ _extraction_running = [sid \in SessionIds |-> None]
    /\ _extraction_pending = [sid \in SessionIds |-> None]
    /\ _last_extraction_time = [sid \in SessionIds |-> None]
    /\ _extraction_timer = [sid \in SessionIds |-> None]
    /\ tasks = {}
    /\ hpc = "receive"
    /\ hlocals = NoLocals
    /\ current_session_id = Some("s1")
    /\ storage_enabled \in BOOLEAN
    /\ conn_open = TRUE
    /\ outbox = NoMessages
    /\ n_chunks = 0
    /\ called_bg = [sid \in SessionIds |-> {}]
    /\ final_calls = [sid \in SessionIds |-> <<>>]
    /\ burst = [sid \in SessionIds |-> NoBurst]
    /\ consolidations = [sid \in SessionIds |-> 0]

SilenceNext ==
    \E audio_bytes \in SilenceInputs, msg_source \in Sources :
        RecvAudioChunk(TRUE, audio_bytes, msg_source)

SilenceSpec == SilenceInit /\ [][SilenceNext]_vars

RECURSIVE SumOfSquares(_)
SumOfSquares(samples) ==
    IF samples = <<>> THEN 0
    ELSE Head(samples) * Head(samples) + SumOfSquares(Tail(samples))

(***************************************************************************)
(* C26.  A buffer of at most 44 bytes, or with no complete 16-bit sample   *)
(* after the header, is dropped as silent; so is an all-zero buffer of any *)
(* length; any other buffer is dropped exactly when the sum of the squares *)
(* of its samples is below threshold^2 times their number (RMS strictly    *)
(* below 200), and is otherwise passed on with its bytes.                  *)
(***************************************************************************)
C26_SilentBelowThreshold ==
    [][ \A msg_source \in Sources :
          /\ \A short \in ShortBuffers :
                 RecvAudioChunk(TRUE, short, msg_source) => hpc' = "receive"
          /\ \A header \in SilenceHeaders, samples \in SampleSeqs,
                tail \in SilenceTails :
                 RecvAudioChunk(TRUE, Buffer(header, samples, tail), msg_source)
                     => /\ (hpc' = "receive") =
                               ( \/ samples = <<>>
                                 \/ SumOfSquares(samples)
                                        < RmsThreshold * RmsThreshold
                                              * Len(samples) )
                        /\ ( /\ header = WavHeader
                             /\ tail \in {<<>>, <<0>>}
                             /\ \A i \in 1..Len(samples) : samples[i] = 0 )
                               => hpc' = "receive"
                        /\ hpc' # "receive" =>
                               hlocals'.audio_bytes
                                   = Buffer(header, samples, tail) ]_vars

\* a chunk of the samples 200 and -200, whose RMS is the threshold, is in
\* the hands of the handler, after a chunk that was dropped
C26_Witness ==
    /\ hpc \in {"save_chunk", "transcribe"}
    /\ n_chunks = 2
    /\ \E header \in SilenceHeaders :
           hlocals.audio_bytes = Buffer(header, <<200, -200>>, <<1>>)

(***************************************************************************)
(* C27.  Within a session the sequence counter of each track never         *)
(* decreases and grows by exactly one per chunk stored on the track: a     *)
(* step that stores a chunk appends one path to the list of its track,     *)
(* with the index the counter had, and adds one to that counter alone; no  *)
(* other step touches counters or lists; the file names of the chunks      *)
(* stored for a track are all different.                                   *)
(***************************************************************************)
C27_CountersCountStoredChunks ==
    [][ \A sid \in SessionIds :
          (session_obj[sid] # None) =>
              LET old == Get(session_obj[sid])
                  new == Get(session_obj'[sid])
                  Grows(source) ==
                      LET paths == IF source = "tab" THEN old.tab_chunk_paths
                                   ELSE old.mic_chunk_paths
                          paths1 == IF source = "tab" THEN new.tab_chunk_paths
                                    ELSE new.mic_chunk_paths
                          count == IF source = "tab" THEN old.tab_chunk_count
                                   ELSE old.mic_chunk_count
                          count1 == IF source = "tab" THEN new.tab_chunk_count
                                    ELSE new.mic_chunk_count
                      IN /\ count1 = count + 1
                         /\ paths1 = Append(paths,
                                            ChunkPath(sid, source, count))
                         /\ \A i \in 1..Len(paths) :
                                ChunkName(paths[i]) # ChunkName(paths1[Len(paths1)])
                  Same(source) ==
                      IF source = "tab"
                      THEN /\ new.tab_chunk_count = old.tab_chunk_count
                           /\ new.tab_chunk_paths = old.tab_chunk_paths
                      ELSE /\ new.mic_chunk_count = old.mic_chunk_count
                           /\ new.mic_chunk_paths = old.mic_chunk_paths
              IN /\ session_obj'[sid] # None
                 /\ \/ Same("mic") /\ Same("tab")
                    \/ /\ hpc = "save_chunk"
                       /\ hlocals.source = "mic"
                       /\ Grows("mic") /\ Same("tab")
                    \/ /\ hpc = "save_chunk"
                       /\ hlocals.source = "tab"
                       /\ Grows("tab") /\ Same("mic")
                 /\ new.mic_chunk_count = Len(new.mic_chunk_paths)
                 /\ new.tab_chunk_count = Len(new.tab_chunk_paths) ]_vars

\* two chunks stored on the mic track and one on the tab track
C27_Witness ==
    \E sid \in SessionIds :
        /\ session_obj[sid] # None
        /\ LET s == Get(session_obj[sid])
           IN /\ s.mic_chunk_count = 2
              /\ s.tab_chunk_count = 1
              /\ s.mic_chunk_paths =
                     << ChunkPath(sid, "mic", 0), ChunkPath(sid, "mic", 1) >>
              /\ s.tab_chunk_paths = << ChunkPath(sid, "tab", 0) >>

(***************************************************************************)
(* Background tasks that outlive their session's registration              *)
(* (websocket_handler.py, _run_extraction_bg 442-454, _finalize_session    *)
(* 464-483).                                                               *)
(***************************************************************************)
\* the tasks that run an extraction pass in the background
ExtractionTasks ==
    { t \in tasks : t.kind \in {"run_extraction_bg", "finalize_session"} }

\* session.update_extraction(extraction) on the object the task holds
HeldSessionMerged(t, response) ==
    LET held == Get(session_obj[t.sid])
    IN Some([held EXCEPT
                !.extraction =
                    [f \in Fields |-> _merge_field(held.extraction[f], response[f])]])

\* the task's backend call returns or raises
BackendCallEnds(t, ok, response) ==
    \/ RunExtractionBgDone(t, ok, response)
    \/ FinalizeSessionExtractDone(t, ok, response)

\* the task has returned, or has gone on to its next await
TaskWentOn(t) ==
    \/ t \notin tasks'
    \/ t.kind = "finalize_session" /\ [t EXCEPT !.pc = "combine"] \in tasks'

\* C28: a background extraction or finalization task whose session has left
\* the registry still runs to its end: a lookup of the id finds nothing, the
\* task merges the response into the session object it holds, the registry
\* stays as it is, and the task goes on whether the backend call returned
\* or raised.
C28_LateTasksUpdateHeldSession ==
    [][\A t \in ExtractionTasks :
           (t.sid \notin sessions) =>
               /\ get_session(t.sid) = None
               /\ \A response \in Responses :
                      BackendCallEnds(t, TRUE, response) =>
                          /\ session_obj'[t.sid] = HeldSessionMerged(t, response)
                          /\ sessions' = sessions
                          /\ TaskWentOn(t)
               /\ \A response \in Responses :
                      BackendCallEnds(t, FALSE, response) =>
                          /\ session_obj' = session_obj
                          /\ sessions' = sessions
                          /\ TaskWentOn(t)
               /\ (RunExtractionBgStart(t) \/ FinalizeSessionStart(t)) =>
                      sessions' = sessions
      ]_vars

\* a final pass that began after the removal has merged its response, no
\* scheduler task having called the backend before
C28_Witness ==
    \E sid \in SessionIds :
        /\ sid \notin sessions
        /\ session_obj[sid] # None
        /\ called_bg[sid] = {}
        /\ Len(final_calls[sid]) = 1
        /\ ~final_calls[sid][1].registered
        /\ \A t \in tasks : t.kind # "finalize_session"
        /\ Get(session_obj[sid]).extraction["chief_complaint"] = <<"a">>

(***************************************************************************)
(* The final extraction of the disconnect path fails                       *)
(* (websocket_handler.py, lines 118-151).                                  *)
(***************************************************************************)
\* the four scheduler dictionaries hold nothing for the session
TrackingCleared(sid) ==
    /\ _extraction_running'[sid] = None
    /\ _extraction_pending'[sid] = None
    /\ _last_extraction_time'[sid] = None
    /\ _extraction_timer'[sid] = None

\* asyncio.create_task(self._save_session_audio(session)), lines 137-141
SaveSessionAudioTask(sid) ==
    [ kind |-> "save_session_audio", sid |-> sid, transcript |-> <<>>,
      websocket |-> None, pc |-> "ready" ]

\* C29: when the final extraction of a closed or broken connection raises,
\* nothing is merged and the handler carries on: the session leaves the
\* registry, its scheduler entries are dropped, a consolidation task is
\* created exactly when the session has stored chunks, and the handler
\* returns.
C29_FailedFinalExtractionStillCleansUp ==
    [][\A response \in Responses :
           FinalExtractDone(FALSE, response) =>
               LET sid == Get(current_session_id)
                   s == Get(session_obj[sid])
               IN /\ session_obj' = session_obj
                  /\ sid \in sessions
                  /\ sessions' = sessions \ {sid}
                  /\ TrackingCleared(sid)
                  /\ IF has_audio_chunks(s)
                     THEN /\ SaveSessionAudioTask(sid) \in tasks'
                          /\ consolidations'[sid] = consolidations[sid] + 1
                     ELSE /\ tasks' \subseteq tasks
                          /\ consolidations' = consolidations
                  /\ hpc' = "returned"
      ]_vars

\* the handler has returned from a final pass that merged nothing, the
\* session is gone from the registry and its stored chunks are being
\* consolidated
C29_Witness ==
    \E sid \in SessionIds :
        /\ hpc = "returned"
        /\ sid \notin sessions
        /\ session_obj[sid] # None
        /\ called_bg[sid] = {}
        /\ Len(final_calls[sid]) = 1
        /\ final_calls[sid][1].registered
        /\ Get(session_obj[sid]).extraction = EmptyExtraction
        /\ has_audio_chunks(Get(session_obj[sid]))
        /\ consolidations[sid] = 1
        /\ _extraction_running[sid] = None

(***************************************************************************)
(* A scheduler-started task on its own (websocket_handler.py, lines        *)
(* 426-454 and 275-321).  The session holds a snapshot of earlier          *)
(* extractions and one or two fragments; a task with the transcript of the *)
(* first fragment is running, and the second fragment, when there is one,  *)
(* was queued during its run.  The handler is at handler_pc.  History is   *)
(* counted from this point.                                                *)
(***************************************************************************)
TaskSnapshots ==
    { [EmptyExtraction EXCEPT !["chief_complaint"] = v] :
          v \in { <<>>, <<"a">>, <<"b">> } }

\* what the extraction backend answers to the task
TaskResponses ==
    { [EmptyExtraction EXCEPT !["chief_complaint"] = v] :
          v \in { <<"a">>, <<"b">> } }

TaskFragments ==
    { [text |-> <<"h", "i">>, speaker |-> Speaker(source)] :
          source \in {"mic", "tab"} }

\* one fragment, or a second one that arrived during the run
TaskTranscriptChunks ==
    { <<first>> : first \in TaskFragments }
        \cup { <<first, second>> : first \in TaskFragments,
                                   second \in TaskFragments }

TaskStart(handler_pc) ==
    /\ \E previous \in TaskSnapshots, chunks \in TaskTranscriptChunks :
           LET s == [ConsultationSession EXCEPT
                        !.extraction = previous,
                        !.transcript_chunks = chunks]
               first == get_full_transcript(
                            [s EXCEPT !.transcript_chunks = <<chunks[1]>>])
           IN /\ session_obj = [sid \in SessionIds |-> Some(s)]
              /\ tasks = { RunExtractionBgTask(sid, first, Some(WS)) :
                               sid \in SessionIds }
              /\ _extraction_pending =
                     [sid \in SessionIds |->
                         IF Len(chunks) = 2
                         THEN Some([transcript |-> get_full_transcript(s),
                                    websocket |-> Some(WS)])
                         ELSE None]
    /\ sessions = SessionIds
    /\ _extraction_running = [sid \in SessionIds |-> Some(TRUE)]
    /\ _last_extraction_time = [sid \in SessionIds |-> Some(0)]
    /\ _extraction_timer = [sid \in SessionIds |-> None]
    /\ hpc = handler_pc
    /\ hlocals = NoLocals
    /\ current_session_id \in { Some(sid) : sid \in SessionIds }
    /\ storage_enabled = FALSE
    /\ conn_open \in BOOLEAN
    /\ outbox = NoMessages
    /\ n_chunks = 0
    /\ called_bg = [sid \in SessionIds |-> {}]
    /\ final_calls = [sid \in SessionIds |-> <<>>]
    /\ burst = [sid \in SessionIds |-> NoBurst]
    /\ consolidations = [sid \in SessionIds |-> 0]

\* the handler waits for the next message
TaskInit == TaskStart("receive")

TaskNext ==
    \/ \E t \in tasks : RunExtractionBgStart(t)
    \/ \E t \in tasks, ok \in BOOLEAN, response \in TaskResponses :
           RunExtractionBgDone(t, ok, response)

TaskSpec == TaskInit /\ [][TaskNext]_vars

\* the request queued for the session while the task ran
PendingRequest(sid) == _extraction_pending[sid]

\* the finally block found nothing queued: the flag is cleared and the task
\* is gone
FlagClearedNothingStarted(t) ==
    /\ _extraction_running'[t.sid] = Some(FALSE)
    /\ _extraction_pending'[t.sid] = None
    /\ tasks' = tasks \ {t}

\* the finally block found a request: pending is emptied and a new task
\* with that request is started at once, which sets the flag again
PendingStartedAtOnce(t) ==
    LET request == Get(PendingRequest(t.sid))
    IN /\ _extraction_pending'[t.sid] = None
       /\ tasks' = (tasks \ {t})
                       \cup {RunExtractionBgTask(t.sid, request.transcript,
                                                 request.websocket)}
       /\ _extraction_running'[t.sid] = Some(TRUE)
       /\ _extraction_timer'[t.sid] = None

\* C30: a scheduler-started task first calls the extraction backend, with
\* the snapshot, the outbox, the running flag and pending as they were; when
\* the call has returned it merges the response into the session's snapshot
\* and sends, on an open connection, one extraction_update carrying that
\* merged snapshot; then the running flag is cleared and, when a request is
\* pending, a new task with that request is started at once and pending is
\* empty.
C30_TaskStepsInOrder ==
    [][\A t \in tasks :
           /\ (RunExtractionBgStart(t)
                   /\ Len(strip(t.transcript)) >= min_transcript_length) =>
                  /\ t.transcript \notin called_bg[t.sid]
                         => called_bg'[t.sid] # called_bg[t.sid]
                  /\ t.transcript \in called_bg'[t.sid]
                  /\ session_obj' = session_obj
                  /\ outbox' = outbox
                  /\ _extraction_running' = _extraction_running
                  /\ _extraction_pending' = _extraction_pending
                  /\ [t EXCEPT !.pc = "extract"] \in tasks'
           /\ \A response \in TaskResponses :
                  RunExtractionBgDone(t, TRUE, response) =>
                      LET merged ==
                              merge(Get(session_obj[t.sid]).extraction, response)
                      IN /\ t.transcript \in called_bg[t.sid]
                         /\ _extraction_running[t.sid] = Some(TRUE)
                         /\ Get(session_obj'[t.sid]).extraction = merged
                         /\ conn_open =>
                                /\ outbox'["extraction_update"] =
                                       outbox["extraction_update"] + 1
                                /\ outbox'["last_update"] = Some(merged)
                         /\ outbox'["error"] = outbox["error"]
                         /\ IF PendingRequest(t.sid) = None
                            THEN FlagClearedNothingStarted(t)
                            ELSE PendingStartedAtOnce(t)
      ]_vars

\* the task has sent an update that carries a snapshot of two lines, which
\* no single response holds, and the request queued during its run is now
\* a task that is ready to run
C30_Witness ==
    \E sid \in SessionIds :
        /\ outbox["extraction_update"] = 1
        /\ outbox["last_update"] = Some(Get(session_obj[sid]).extraction)
        /\ Get(outbox["last_update"]) \notin TaskResponses
        /\ Len(StrippedLines(Get(outbox["last_update"])["chief_complaint"])) = 2
        /\ called_bg[sid] # {}
        /\ _extraction_pending[sid] = None
        /\ _extraction_running[sid] = Some(TRUE)
        /\ tasks = { RunExtractionBgTask(
                         sid, get_full_transcript(Get(session_obj[sid])),
                         Some(WS)) }
        /\ Len(Get(session_obj[sid]).transcript_chunks) = 2

(***************************************************************************)
(* Snapshot merges of calls that overlap (websocket_handler.py, line 312;  *)
(* models/consultation.py, lines 39-41).                                   *)
(***************************************************************************)
\* the handler is in the final extraction pass of a termination that began
\* while the task was running (lines 118-135, 153-174)
OverlapInit == TaskStart("final_extract")

OverlapNext ==
    \/ TaskNext
    \/ \E ok \in BOOLEAN, response \in TaskResponses :
           FinalExtractDone(ok, response)

OverlapSpec == OverlapInit /\ [][OverlapNext]_vars

\* the session's cumulative snapshot
Snapshot(sid) == Get(session_obj[sid]).extraction

\* every field of the earlier snapshot is still part of the later one
ContentKept(before, after) ==
    \A f \in Fields : IsSubstring(before[f], after[f])

\* a backend call of the session returns its response in this step
CallCompletes(sid, response) ==
    \/ \E t \in tasks :
           /\ t.sid = sid
           /\ \/ RunExtractionBgDone(t, TRUE, response)
              \/ FinalizeSessionExtractDone(t, TRUE, response)
    \/ /\ current_session_id = Some(sid)
       /\ FinalExtractDone(TRUE, response)

\* C31: a response is merged, in the step in which its backend call
\* completes, into the snapshot as it stands in that step, and no step
\* removes content from a session's snapshot, also when two calls of the
\* session were in flight together.
C31_MergesAppliedAtCompletion ==
    [][\A sid \in SessionIds :
           session_obj[sid] # None =>
               /\ session_obj'[sid] # None
               /\ ContentKept(Snapshot(sid), Snapshot(sid)')
               /\ \A response \in TaskResponses :
                      CallCompletes(sid, response) =>
                          Snapshot(sid)' = merge(Snapshot(sid), response)
      ]_vars

\* the task's call and the final pass were in flight together, both have
\* completed, and the snapshot, empty at first, holds both answers
C31_Witness ==
    \E sid \in SessionIds :
        /\ hpc = "returned"
        /\ tasks = {}
        /\ Len(Get(session_obj[sid]).transcript_chunks) = 1
        /\ Cardinality(called_bg[sid]) = 1
        /\ Len(StrippedLines(Snapshot(sid)["chief_complaint"])) = 2

(***************************************************************************)
(* _schedule_extraction as _handle_audio_chunk calls it (lines 382-387,    *)
(* 395-424).                                                               *)
(***************************************************************************)
\* this step handles a transcribed fragment of the session and calls
\* _schedule_extraction
ScheduleCalled(sid) ==
    /\ current_session_id = Some(sid)
    /\ \E transcript \in TranscribeOutputs :
           /\ strip(transcript) # <<>>
           /\ TranscribeDone(TRUE, transcript)

\* the request of that call: the full transcript with the new fragment
NewRequest(sid) ==
    [ transcript |-> get_full_transcript(Get(session_obj'[sid])),
      websocket |-> Some(WS) ]

TaskRunning(sid) == _extraction_running[sid] = Some(TRUE)

\* C32: a schedule call that finds no task running starts a task with its
\* request at once and leaves no trigger outstanding when the interval has
\* elapsed since the last start; otherwise it starts nothing, stores its
\* request as pending and arms a trigger for the rest of the interval
\* unless one is outstanding, which is kept as it is.
C32_ScheduleWhileIdle ==
    [][\A sid \in SessionIds :
           (ScheduleCalled(sid) /\ ~TaskRunning(sid)) =>
               LET request == NewRequest(sid)
                   elapsed == Elapsed(Sched, sid)
                   started == RunExtractionBgTask(sid, request.transcript,
                                                  request.websocket)
               IN IF elapsed >= _EXTRACTION_THROTTLE_SECS
                  THEN /\ started \notin tasks
                       /\ tasks' = tasks \cup {started}
                       /\ _extraction_running'[sid] = Some(TRUE)
                       /\ _last_extraction_time'[sid] = Some(0)
                       /\ _extraction_timer'[sid] = None
                  ELSE /\ tasks' = tasks
                       /\ _extraction_pending'[sid] = Some(request)
                       /\ _extraction_timer'[sid] =
                              IF _extraction_timer[sid] = None
                              THEN Some(_EXTRACTION_THROTTLE_SECS - elapsed)
                              ELSE _extraction_timer[sid]
                       /\ _extraction_running' = _extraction_running
                       /\ _last_extraction_time' = _last_extraction_time
      ]_vars

\* a task has just been started with the transcript of three fragments while
\* a request with fewer fragments is stored: the direct start came when the
\* trigger armed for that request was due, and cancelled it
C32_Witness ==
    \E sid \in SessionIds :
        /\ sid \in sessions
        /\ NumFragments(sid) = 3
        /\ RunExtractionBgTask(sid, TranscriptAt(sid, 3), Some(WS)) \in tasks
        /\ _extraction_pending[sid] # None
        /\ Get(_extraction_pending[sid]).transcript = TranscriptAt(sid, 2)
        /\ _extraction_timer[sid] = None
        /\ _last_extraction_time[sid] = Some(0)

\* C33: a schedule call that finds a task running only stores its request
\* as pending, in place of an older one: no task is started, no trigger is
\* created or cancelled, and the running flag and the time of the last
\* start stay as they are.
C33_ScheduleWhileRunning ==
    [][\A sid \in SessionIds :
           (ScheduleCalled(sid) /\ TaskRunning(sid)) =>
               /\ _extraction_pending'[sid] = Some(NewRequest(sid))
               /\ tasks' = tasks
               /\ _extraction_timer' = _extraction_timer
               /\ _extraction_running' = _extraction_running
               /\ _last_extraction_time' = _last_extraction_time
      ]_vars

\* the task of the first fragment is at the backend, the request of the
\* second fragment has been replaced by that of the third
C33_Witness ==
    \E sid \in SessionIds :
        /\ sid \in sessions
        /\ NumFragments(sid) = 3
        /\ TaskRunning(sid)
        /\ \E t \in SchedulerTasks(sid) :
               t.pc = "extract" /\ t.transcript = TranscriptAt(sid, 1)
        /\ _extraction_pending[sid] # None
        /\ Get(_extraction_pending[sid]).transcript = TranscriptAt(sid, 3)
        /\ _last_extraction_time[sid] = Some(0)

(***************************************************************************)
(* The scheduler's dictionaries hold one flag, one request, one start time *)
(* and one call_later handle per session id (lines 36-39), and a handle is *)
(* stored only when the session has none (line 419).                       *)
(***************************************************************************)
\* a delayed trigger of the session is outstanding
TriggerOutstanding(sid) == _extraction_timer[sid] # None

\* C34: no delayed trigger of a session is outstanding while its running
\* flag is true or while a task started by the scheduler is in flight for
\* it; the session has one trigger entry and one pending entry at most.
C34_NoTriggerWhileRunning ==
    \A sid \in SessionIds :
        /\ (TaskRunning(sid) \/ SchedulerTasks(sid) # {})
               => ~TriggerOutstanding(sid)
        /\ Cardinality(SchedulerTasks(sid)) <= 1
        /\ _extraction_timer[sid] \in {None} \cup { Some(d) : d \in 0.._EXTRACTION_THROTTLE_SECS }
        /\ _extraction_pending[sid] # None
               => Get(_extraction_pending[sid]).transcript
                      \in { TranscriptAt(sid, k) : k \in 1..NumFragments(sid) }

\* a task started when the trigger of an older request was due is at the
\* backend: the older request is still stored, the trigger is gone
C34_Witness ==
    \E sid \in SessionIds :
        /\ sid \in sessions
        /\ NumFragments(sid) = 3
        /\ TaskRunning(sid)
        /\ \E t \in SchedulerTasks(sid) :
               t.pc = "extract" /\ t.transcript = TranscriptAt(sid, 3)
        /\ _extraction_pending[sid] # None
        /\ Get(_extraction_pending[sid]).transcript = TranscriptAt(sid, 2)
        /\ ~TriggerOutstanding(sid)

(***************************************************************************)
(* The order of the transcripts that reach the backend (lines 410-454).    *)
(* A session's transcript only grows, so the longer of two of its          *)
(* transcripts is the newer one.                                           *)
(***************************************************************************)
\* the task passes its transcript to the extraction backend in this step
BackendCalledBy(t) ==
    /\ RunExtractionBgStart(t)
    /\ MeetsMinLength(t.transcript)

\* C35: no backend call of a scheduler task uses a transcript older than
\* the transcript of an earlier call of the session.
C35_CallsNeverGoBackwards ==
    [][\A t \in tasks :
           BackendCalledBy(t) =>
               \A earlier \in called_bg[t.sid] :
                   Len(earlier) <= Len(t.transcript)
      ]_vars

\* a request is stored for the session
PendingStored(sid) == _extraction_pending[sid] # None

\* C36: while a session is registered, a stored pending request has a task
\* running that will drain it when it ends, or a trigger outstanding that
\* will start it.
C36_PendingNeverStranded ==
    \A sid \in sessions :
        PendingStored(sid) => (TaskRunning(sid) \/ TriggerOutstanding(sid))

\* a request waits for its trigger with no task running, part of the
\* interval having passed
C36_Witness ==
    \E sid \in sessions :
        /\ PendingStored(sid)
        /\ ~TaskRunning(sid)
        /\ SchedulerTasks(sid) = {}
        /\ TriggerOutstanding(sid)
        /\ Get(_extraction_timer[sid]) \in 1..(_EXTRACTION_THROTTLE_SECS - 1)
        /\ called_bg[sid] # {}

(***************************************************************************)
(* Messages after the acknowledgement of stop_session (lines 84-110,       *)
(* 314-321).                                                               *)
(***************************************************************************)
\* session_stopped has been sent on the connection
StopAcknowledged == outbox["session_stopped"] > 0

\* C37: once session_stopped has been sent, no extraction_update is sent
\* on the connection.
C37_NoUpdateAfterStopped ==
    [][StopAcknowledged =>
           outbox'["extraction_update"] = outbox["extraction_update"]]_vars

(***************************************************************************)
(* What the scheduler keeps of a session that is over (lines 99-108,       *)
(* 143-151, 448-454).                                                      *)
(***************************************************************************)
\* the session has left the registry, its handler has returned and no
\* background task of it is left
SessionOver(sid) ==
    /\ Known(sid)
    /\ sid \notin sessions
    /\ hpc = "returned"
    /\ \A t \in tasks : t.sid # sid

\* the four dictionaries of the scheduler have no entry for the session
NoSchedulerEntry(sid) ==
    /\ _extraction_running[sid] = None
    /\ _extraction_pending[sid] = None
    /\ _last_extraction_time[sid] = None
    /\ _extraction_timer[sid] = None

\* C38: when a session is over and its background tasks have finished, the
\* scheduler has no entry for it.
C38_NoEntryAfterTermination ==
    \A sid \in SessionIds : SessionOver(sid) => NoSchedulerEntry(sid)

(***************************************************************************)
(* A connection on which start_session may arrive twice (lines 67-70,      *)
(* 192-215): uuid4 has two values to draw.                                 *)
(***************************************************************************)
RestartIds == {"s1", "s2"}

RestartInit ==
    /\ sessions = {}
    /\ session_obj = [sid \in RestartIds |-> None]
    /\ _extraction_running = [sid \in RestartIds |-> None]
    /\ _extraction_pending = [sid \in RestartIds |-> None]
    /\ _last_extraction_time = [sid \in RestartIds |-> None]
    /\ _extraction_timer = [sid \in RestartIds |-> None]
    /\ tasks = {}
    /\ hpc = "receive"
    /\ hlocals = NoLocals
    /\ current_session_id = None
    /\ storage_enabled \in BOOLEAN
    /\ conn_open = TRUE
    /\ outbox = NoMessages
    /\ n_chunks = 0
    /\ called_bg = [sid \in RestartIds |-> {}]
    /\ final_calls = [sid \in RestartIds |-> <<>>]
    /\ burst = [sid \in RestartIds |-> NoBurst]
    /\ consolidations = [sid \in RestartIds |-> 0]

RestartSpec == RestartInit /\ [][Next]_vars

\* the sessions created on the connection
Created == { sid \in RestartIds : session_obj[sid] # None }

\* C39: when the handler has returned, no session created on its
\* connection is in the registry.
C39_NoSessionLeftRegistered ==
    hpc = "returned" => Created \cap sessions = {}

(***************************************************************************)
(* A chunk whose write to the chunk store fails (websocket_handler.py,     *)
(* lines 347-393; services/audio_storage.py, lines 29-59).                 *)
(***************************************************************************)
\* the handler goes on to transcribe the chunk it holds
ChunkGoesToTranscription ==
    /\ hpc' = "transcribe"
    /\ hlocals' = hlocals

\* C40: when the write of a chunk fails, the session stays registered, no
\* path is recorded and no counter advances, and the chunk is still passed
\* to the transcription backend.
C40_FailedWriteStillTranscribed ==
    [][SaveChunkDone(FALSE) =>
           /\ sessions' = sessions
           /\ session_obj' = session_obj
           /\ ChunkGoesToTranscription
      ]_vars
====
